---- MODULE Spec2Model ----
(***************************************************************************)
(* Layout-fitting engine of the badge generator: name parsing and          *)
(* truncation (src/utils/name_utils.py), tag validation, tag rows and      *)
(* their auto-shrink, the vertical flow of the professional block and the  *)
(* interests band (src/renderers/badge_renderer_html.py), and the          *)
(* location subsystem: the normalization cache                             *)
(* (src/location/location_normalizer.py), the rate-limited Geocoder and    *)
(* the graphic pipeline (src/location/location_renderer.py).               *)
(*                                                                         *)
(* Representation.                                                         *)
(*  - A Python str is a sequence of one-character strings, so that         *)
(*    split(), join(), lower(), endswith(), s[0] and the width oracle are  *)
(*    computed character by character.                                     *)
(*  - Python floats are exact rationals on integer grids:                  *)
(*      font sizes in half points (18pt = 36, 7.5pt = 15);                 *)
(*      text-fit lengths in 1/1440000 in (UnitsPerInch), so that           *)
(*        stringWidth(text, font, size) / 72 inches                        *)
(*          = (sum of glyph widths / 1000) * size / 72 in                  *)
(*          = sum * halfpoints * 10 units;                                 *)
(*      vertical-flow lengths in 1/7200 in (FlowPerInch), so that          *)
(*        pt * 1.2 / 72 in = pt * 120 units.                               *)
(*    Widths given to the operations are in hundredths of an inch.         *)
(*  - None and the empty string are both the empty sequence where the code *)
(*    only tests them for truthiness; the Optional fields of a             *)
(*    ParsedLocation keep None apart as Unset.                             *)
(*  - Coordinates and pixels of the CoordinateTransformer are exact        *)
(*    rationals; times are in quarter seconds.                             *)
(*  - An exception is a value of the result (a record naming its type), or *)
(*    a flag "raised" of the outcome of a call.                            *)
(***************************************************************************)
EXTENDS Integers, Sequences, FiniteSets, TLC

VARIABLES op, args, result

\* the Geocoder of location_renderer.py: the time (time.time()), the instance's
\* last_request_time, and the times at which its requests were sent
VARIABLES clock, last_request_time, sent

\* the LocationNormalizer instances, the cache file they share, and the record
\* of the requests they sent to the geocoding service
VARIABLES normalizers, cache_file, history

geocoderVars == <<clock, last_request_time, sent>>

normalizerVars == <<normalizers, cache_file, history>>

vars == <<op, args, result, clock, last_request_time, sent,
          normalizers, cache_file, history>>

-----------------------------------------------------------------------------
(* Bounds of the explored inputs *)

MaxTokens == 4

MaxSpaces == 9

-----------------------------------------------------------------------------
(* Strings *)

\* The empty sequence stands for Python's None where a token is expected: no
\* token produced by split() is empty.
None == <<>>

\* Marker for an IndexError raised by s[0] on an empty string.
IndexError == <<"!IndexError">>

IsSpace(c) == c = " "

\* str.strip() is non-empty
HasNonSpace(s) == \E i \in 1..Len(s) : ~IsSpace(s[i])

RECURSIVE SplitAcc(_, _, _)
SplitAcc(s, cur, acc) ==
    IF s = <<>>
    THEN IF cur = <<>> THEN acc ELSE Append(acc, cur)
    ELSE IF IsSpace(Head(s))
         THEN SplitAcc(Tail(s), <<>>, IF cur = <<>> THEN acc ELSE Append(acc, cur))
         ELSE SplitAcc(Tail(s), Append(cur, Head(s)), acc)

\* full_name.strip().split(): maximal runs of non-whitespace characters
Split(s) == SplitAcc(s, <<>>, <<>>)

RECURSIVE Join(_)
\* ' '.join(parts)
Join(parts) ==
    IF parts = <<>> THEN <<>>
    ELSE IF Len(parts) = 1 THEN parts[1]
    ELSE parts[1] \o <<" ">> \o Join(Tail(parts))

LowerChar(c) ==
    CASE c = "A" -> "a" [] c = "B" -> "b" [] c = "C" -> "c" [] c = "D" -> "d"
      [] c = "K" -> "k" [] c = "L" -> "l" [] c = "M" -> "m" [] c = "O" -> "o"
      [] c = "P" -> "p" [] c = "V" -> "v" [] c = "W" -> "w" [] c = "I" -> "i"
      [] OTHER -> c

\* token.lower()
Lower(s) == [i \in 1..Len(s) |-> LowerChar(s[i])]

\* s.endswith(suffix)
EndsWith(s, suffix) ==
    /\ Len(suffix) <= Len(s)
    /\ SubSeq(s, Len(s) - Len(suffix) + 1, Len(s)) = suffix

-----------------------------------------------------------------------------
(* Text-width oracle: pdfmetrics.stringWidth for Helvetica *)

\* Advance width of a glyph in 1/1000 em (Helvetica standard metrics).
GlyphWidth(c) ==
    CASE c = " " -> 278 [] c = "." -> 278
      [] c = "A" -> 667 [] c = "B" -> 667 [] c = "C" -> 722 [] c = "D" -> 722
      [] c = "I" -> 278 [] c = "K" -> 667 [] c = "L" -> 556 [] c = "M" -> 833
      [] c = "O" -> 778 [] c = "P" -> 667 [] c = "V" -> 667 [] c = "W" -> 944
      [] c = "a" -> 556 [] c = "b" -> 556 [] c = "d" -> 556 [] c = "e" -> 556
      [] c = "i" -> 222 [] c = "l" -> 222 [] c = "m" -> 833 [] c = "n" -> 556
      [] c = "o" -> 556 [] c = "r" -> 333 [] c = "s" -> 500 [] c = "t" -> 278
      [] OTHER -> 556

RECURSIVE GlyphSum(_)
GlyphSum(text) ==
    IF text = <<>> THEN 0 ELSE GlyphWidth(Head(text)) + GlyphSum(Tail(text))

UnitsPerInch == 1440000

\* stringWidth(text, "Helvetica", size) / 72.0, in 1/1440000 in; size in half points
WidthUnits(text, size) == GlyphSum(text) * size * 10

\* a width given in hundredths of an inch, in 1/1440000 in
Inches100(w) == w * (UnitsPerInch \div 100)

-----------------------------------------------------------------------------
(* _NameParser *)

CONNECTORS ==
    { <<"b","i","n">>, <<"i","b","n">>, <<"b","i","n","t">>, <<"a","l">>,
      <<"e","l">>, <<"d","e">>, <<"d","e","l">>, <<"d","e"," ","l","a">>,
      <<"v","o","n">>, <<"v","a","n">>, <<"z","u">> }

\* The last ending is the byte sequence the source file spells; its two
\* non-ASCII characters are written A~ and ^3 here.
PATRONYMIC_ENDINGS ==
    { <<"o","v","i","c","h">>, <<"e","v","i","c","h">>, <<"o","v","n","a">>,
      <<"e","v","n","a">>, <<"s","o","n">>, <<"d","A~","^3","t","t","i","r">> }

EASTERN_SURNAMES ==
    { <<"Z","h","a","n","g">>, <<"W","a","n","g">>, <<"L","i">>, <<"L","i","u">>,
      <<"C","h","e","n">>, <<"K","i","m">>, <<"P","a","r","k">>, <<"L","e","e">> }

ParsedName(original, first, last, middle, patronymic, connectors, eastern) ==
    [ original |-> original, first_name |-> first, last_name |-> last,
      middle_names |-> middle, patronymic |-> patronymic,
      connectors |-> connectors, is_eastern_order |-> eastern ]

\* Mutation of _is_eastern_order: the token count is not tested.
EasternAnyLength(tokens) == tokens[1] \in EASTERN_SURNAMES

_is_eastern_order(tokens) == Len(tokens) = 2 /\ tokens[1] \in EASTERN_SURNAMES

_parse_eastern(tokens, original) ==
    ParsedName(original, tokens[Len(tokens)], tokens[1],
               IF Len(tokens) > 2 THEN SubSeq(tokens, 2, Len(tokens) - 1) ELSE <<>>,
               None, <<>>, TRUE)

\* indices (1-based) of the interior tokens whose lower() is a connector
ConnectorIndices(tokens) ==
    { i \in 2..(Len(tokens) - 1) : Lower(tokens[i]) \in CONNECTORS }

RECURSIVE InteriorWhere(_, _, _)
\* the interior tokens at the indices of keep, from index i on, in order
InteriorWhere(tokens, i, keep) ==
    IF i > Len(tokens) - 1 THEN <<>>
    ELSE (IF i \in keep THEN <<tokens[i]>> ELSE <<>>)
         \o InteriorWhere(tokens, i + 1, keep)

\* Mutation of MiddleToken: always the second token.
MiddleTokenSecond(tokens) == tokens[2]

\* tokens[1] for three tokens, tokens[len(tokens) // 2] otherwise (0-based)
MiddleToken(tokens) ==
    IF Len(tokens) = 3 THEN tokens[2] ELSE tokens[(Len(tokens) \div 2) + 1]

DetectPatronymic(tokens) ==
    IF /\ Len(tokens) >= 3
       /\ \E ending \in PATRONYMIC_ENDINGS :
              EndsWith(Lower(MiddleToken(tokens)), ending)
    THEN MiddleToken(tokens)
    ELSE None

_parse_western(tokens, original) ==
    LET connector_indices == ConnectorIndices(tokens)
        patronymic == DetectPatronymic(tokens)
        middle == { i \in 2..(Len(tokens) - 1) :
                      i \notin connector_indices /\ tokens[i] # patronymic }
    IN  ParsedName(original, tokens[1], tokens[Len(tokens)],
                   InteriorWhere(tokens, 2, middle), patronymic,
                   InteriorWhere(tokens, 2, connector_indices), FALSE)

parse(full_name) ==
    IF full_name = <<>> \/ ~HasNonSpace(full_name)
    THEN ParsedName(full_name, <<>>, <<>>, <<>>, None, <<>>, FALSE)
    ELSE LET tokens == Split(full_name)
         IN  IF Len(tokens) = 0
             THEN ParsedName(full_name, <<>>, <<>>, <<>>, None, <<>>, FALSE)
             ELSE IF Len(tokens) = 1
             THEN ParsedName(full_name, tokens[1], <<>>, <<>>, None, <<>>, FALSE)
             ELSE IF _is_eastern_order(tokens)
             THEN _parse_eastern(tokens, full_name)
             ELSE _parse_western(tokens, full_name)

-----------------------------------------------------------------------------
(* _NameTruncator *)

\* Mutation of _fits_at_size: the 8% safety margin is left out.
FitsWithoutMargin(text, size, max_width) ==
    WidthUnits(text, size) <= Inches100(max_width)

\* width_inches <= max_width_inches - 0.08 * max_width_inches
\* (size in half points, max_width in hundredths of an inch)
_fits_at_size(text, size, max_width) ==
    LET safety_margin == (8 * Inches100(max_width)) \div 100
    IN  WidthUnits(text, size) <= Inches100(max_width) - safety_margin

\* s[0] as a one-character string
FirstChar(s) == IF s = <<>> THEN IndexError ELSE <<s[1]>>

_reconstruct_name(parsed, include_middle) ==
    IF parsed.is_eastern_order
    THEN IF include_middle /\ parsed.middle_names # <<>>
         THEN parsed.last_name \o <<" ">> \o Join(parsed.middle_names)
                  \o <<" ">> \o parsed.first_name
         ELSE parsed.last_name \o <<" ">> \o parsed.first_name
    ELSE Join( <<parsed.first_name>>
               \o (IF include_middle THEN parsed.middle_names ELSE <<>>)
               \o (IF include_middle /\ parsed.patronymic # None
                   THEN <<parsed.patronymic>> ELSE <<>>)
               \o (IF parsed.last_name # <<>> THEN <<parsed.last_name>> ELSE <<>>) )

\* Mutation of _progressive_truncate: the last-name initial is tried before the
\* patronymic rule.
TruncateInitialFirst(parsed) ==
    IF parsed.middle_names # <<>>
    THEN _reconstruct_name(parsed, FALSE)
    ELSE IF parsed.last_name # <<>>
    THEN parsed.first_name \o <<" ">> \o FirstChar(parsed.last_name) \o <<".">>
    ELSE IF parsed.patronymic # None
    THEN parsed.first_name \o <<" ">> \o parsed.last_name
    ELSE parsed.first_name

\* Mutation of _progressive_truncate: the initial is taken without testing that
\* a last name exists.
TruncateUnguardedInitial(parsed) ==
    IF parsed.middle_names # <<>>
    THEN _reconstruct_name(parsed, FALSE)
    ELSE IF parsed.patronymic # None
    THEN parsed.first_name \o <<" ">> \o parsed.last_name
    ELSE IF FirstChar(parsed.last_name) = IndexError
         THEN IndexError
         ELSE parsed.first_name \o <<" ">> \o FirstChar(parsed.last_name) \o <<".">>

_progressive_truncate(parsed) ==
    IF parsed.middle_names # <<>>
    THEN _reconstruct_name(parsed, FALSE)
    ELSE IF parsed.patronymic # None
    THEN parsed.first_name \o <<" ">> \o parsed.last_name
    ELSE IF parsed.last_name # <<>>
    THEN IF FirstChar(parsed.last_name) = IndexError
         THEN IndexError
         ELSE parsed.first_name \o <<" ">> \o FirstChar(parsed.last_name) \o <<".">>
    ELSE parsed.first_name

\* int(x) of a size in half points, in whole points
IntPt(size) == size \div 2

\* No size of the loop fitted.
NoSize == 0

\* Mutation of ShrinkLoop: the sizes are tried from the smallest up.
ShrinkLoopUp(text, pt, stop, max_width) ==
    LET fitting == { q \in stop..pt : _fits_at_size(text, 2 * q, max_width) }
    IN  IF fitting = {} THEN NoSize
        ELSE 2 * (CHOOSE q \in fitting : \A r \in fitting : q <= r)

RECURSIVE ShrinkLoop(_, _, _, _)
\* for size in range(pt, stop - 1, -1): if self._fits_at_size(text, float(size)): return
\* (pt and stop in whole points; yields the size found in half points)
ShrinkLoop(text, pt, stop, max_width) ==
    IF pt < stop THEN NoSize
    ELSE IF _fits_at_size(text, 2 * pt, max_width) THEN 2 * pt
    ELSE ShrinkLoop(text, pt - 1, stop, max_width)

\* The size the second loop of truncate starts from, in whole points.
TruncatedStart(default_size) == IntPt(default_size) - 1

TruncateResult(text, font_size, stage) ==
    [ text |-> text, font_size |-> font_size, stage |-> stage,
      raised |-> (text = IndexError) ]

truncate(full_name, max_width, default_size, min_size) ==
    IF full_name = <<>> \/ ~HasNonSpace(full_name)
    THEN TruncateResult(full_name, default_size, 0)
    ELSE IF _fits_at_size(full_name, default_size, max_width)
    THEN TruncateResult(full_name, default_size, 0)
    ELSE LET shrunk == ShrinkLoop(full_name, IntPt(default_size) - 1,
                                  IntPt(min_size), max_width)
         IN  IF shrunk # NoSize
             THEN TruncateResult(full_name, shrunk, 1)
             ELSE LET parsed == parse(full_name)
                      truncated == _progressive_truncate(parsed)
                      size == IF truncated = IndexError THEN NoSize
                              ELSE ShrinkLoop(truncated, TruncatedStart(default_size),
                                              IntPt(min_size), max_width)
                  IN  IF size # NoSize
                      THEN TruncateResult(truncated, size, 2)
                      ELSE TruncateResult(truncated, min_size, 2)

get_display_name(original_name, max_width, default_font_size, min_font_size) ==
    LET r == truncate(original_name, max_width, default_font_size, min_font_size)
    IN  [ text |-> r.text, font_size |-> r.font_size, stage |-> r.stage,
          raised |-> r.raised, truncated |-> (r.text # original_name) ]

-----------------------------------------------------------------------------
(* Inputs of the name operations *)

NameTokens ==
    { <<"L","i">>, <<"W","e","i">>, <<"A","n","a">>, <<"D","e">>,
      <<"O","l","s","o","n">>, <<"B","o">> }

RECURSIVE TokenSeqs(_)
TokenSeqs(n) ==
    IF n = 0 THEN { <<>> }
    ELSE TokenSeqs(n - 1)
         \cup { Append(ts, t) : ts \in { x \in TokenSeqs(n - 1) : Len(x) = n - 1 },
                                t \in NameTokens }

Spaces(k) == [i \in 1..k |-> " "]

\* names of up to MaxTokens tokens joined by single spaces, blank names of up
\* to MaxSpaces spaces, and names with surrounding or doubled whitespace
Names ==
    { Join(ts) : ts \in TokenSeqs(MaxTokens) }
    \cup { Spaces(k) : k \in 0..MaxSpaces }
    \cup { <<" ">> \o Join(ts) \o <<" ">> : ts \in TokenSeqs(2) \ { <<>> } }
    \cup { t \o <<" ", " ">> \o u : t \in NameTokens, u \in NameTokens }

\* max_width in hundredths of an inch: the badge's 2.7in and narrower zones
NameWidths == { 270, 150, 60, 30 }

\* (default, min) font sizes in half points: 18/12pt as the renderer passes,
\* 14/12pt and 12/12pt
NameSizes == { <<36, 24>>, <<28, 24>>, <<24, 24>> }

-----------------------------------------------------------------------------
(* BadgeRendererHTML._calculate_tag_row_styling *)

TagStyling(font_size, padding_h, gap) ==
    [ font_size |-> font_size, padding_h |-> padding_h, gap |-> gap ]

\* progressive reduction steps: gaps and paddings in hundredths of an inch, font
\* sizes in half points (8, 7.5, 7)
gap_steps == <<8, 6, 4>>

padding_steps == <<12, 10, 8>>

font_steps == <<16, 15, 14>>

\* Mutation of SafeMaxWidth: the 0.93 safety factor is left out.
FullMaxWidth(max_width) == Inches100(max_width)

\* safe_max_width = max_width * safety_factor, safety_factor = 0.93
SafeMaxWidth(max_width) == (Inches100(max_width) * 93) \div 100

RECURSIVE TotalWidth(_, _, _, _, _)
\* the inner loop over enumerate(tag_values), from tag i on
TotalWidth(tag_values, i, font_size, padding_h, gap) ==
    IF i > Len(tag_values) THEN 0
    ELSE (Inches100(padding_h) * 2) + WidthUnits(tag_values[i], font_size)
         + (IF i < Len(tag_values) THEN Inches100(gap) ELSE 0)
         + TotalWidth(tag_values, i + 1, font_size, padding_h, gap)

\* Mutation of LoopCombination: padding outermost, font size in the middle,
\* gap innermost.
LoopCombinationPaddingOuter(k) ==
    TagStyling(font_steps[((k \div 3) % 3) + 1], padding_steps[(k \div 9) + 1],
               gap_steps[(k % 3) + 1])
\* Mutation of LoopCombination: the loops are nested the other way round, gap
\* outermost and font size innermost.
LoopCombinationGapOuter(k) ==
    TagStyling(font_steps[(k % 3) + 1], padding_steps[((k \div 3) % 3) + 1],
               gap_steps[(k \div 9) + 1])

\* the k-th combination (k = 0..26) of the three nested loops:
\* font_steps outermost, padding_steps in the middle, gap_steps innermost
LoopCombination(k) ==
    TagStyling(font_steps[(k \div 9) + 1], padding_steps[((k \div 3) % 3) + 1],
               gap_steps[(k % 3) + 1])

RECURSIVE SearchFrom(_, _, _)
\* the nested loops from combination k on: the first combination whose total
\* width is within safe_max_width, else the most aggressive shrinking
SearchFrom(tag_values, safe_max_width, k) ==
    IF k > 26 THEN TagStyling(14, 8, 4)
    ELSE LET c == LoopCombination(k)
         IN  IF TotalWidth(tag_values, 1, c.font_size, c.padding_h, c.gap)
                    <= safe_max_width
             THEN c
             ELSE SearchFrom(tag_values, safe_max_width, k + 1)

_calculate_tag_row_styling(tag_values, max_width) ==
    IF tag_values = <<>> THEN TagStyling(16, 12, 8)
    ELSE SearchFrom(tag_values, SafeMaxWidth(max_width), 0)

-----------------------------------------------------------------------------
(* Inputs of the tag-row operation *)

MaxTags == 4

TagValues ==
    { <<"O","K">>, <<"V","I","P">>, <<"M","e","m","b","e","r">> }

RECURSIVE TagRows(_)
TagRows(n) ==
    IF n = 0 THEN { <<>> }
    ELSE TagRows(n - 1)
         \cup { Append(r, t) : r \in { x \in TagRows(n - 1) : Len(x) = n - 1 },
                               t \in TagValues }

\* max_width in hundredths of an inch: 2.7in, 2.25in beside a micro badge, and
\* narrower rows
TagWidths == { 270, 225, 180, 120 }

-----------------------------------------------------------------------------
(* Vertical flow: _calculate_title_lines, _calculate_professional_positioning *)
(* and the layout part of _prepare_badge_html                               *)

FlowPerInch == 7200

\* a length given in hundredths of an inch, in 1/7200 in
Flow100(x) == x * (FlowPerInch \div 100)

\* (font_pt * line_height) / 72 inches with line_height = 1.2, in 1/7200 in
LineHeight(font_pt) == (font_pt * 12 * FlowPerInch) \div (10 * 72)

_calculate_title_lines(title) ==
    IF title = <<>> \/ ~HasNonSpace(title) THEN 0
    ELSE LET max_width == Inches100(220)
             safety_margin == (5 * max_width) \div 100
         IN  IF WidthUnits(title, 20) <= max_width - safety_margin THEN 1 ELSE 2

\* Mutation of TitleHeight: a two-line title is given the height of one line.
TitleHeightNotDoubled(title_lines) ==
    IF title_lines = 0 THEN 0 ELSE LineHeight(10)

TitleHeight(title_lines) ==
    IF title_lines = 0 THEN 0
    ELSE IF title_lines = 1 THEN LineHeight(10)
    ELSE LineHeight(10) * 2

\* Mutation of _calculate_professional_positioning: a negative offset is
\* replaced by 0.
ProfessionalPositioningClamped(title) ==
    LET title_lines == _calculate_title_lines(title)
        total_height == TitleHeight(title_lines) + Flow100(4) + LineHeight(9)
        centered == (total_height \div 2) - (Flow100(40) \div 2)
    IN  [ professional_top |-> Flow100(183),
          graphic_offset |-> IF centered < 0 THEN 0 ELSE centered ]
_calculate_professional_positioning(title) ==
    LET title_lines == _calculate_title_lines(title)
        company_height == LineHeight(9)
        total_height == TitleHeight(title_lines) + Flow100(4) + company_height
        text_center == total_height \div 2
    IN  [ professional_top |-> Flow100(183),
          graphic_offset |-> text_center - (Flow100(40) \div 2) ]

\* Mutation of InterestsBand: the band is never scaled down.
InterestsBandNominal(available_height) ==
    [ height |-> Flow100(135), width |-> Flow100(270), left_offset |-> 0 ]

\* the interests band for the height left above the bottom tag row
InterestsBand(available_height) ==
    LET interests_band_height == Flow100(135)
    IN  IF available_height < interests_band_height
        THEN LET scaled_width == (Flow100(270) * available_height)
                                     \div interests_band_height
             IN  [ height |-> available_height, width |-> scaled_width,
                   left_offset |-> (Flow100(270) - scaled_width) \div 2 ]
        ELSE [ height |-> interests_band_height, width |-> Flow100(270),
               left_offset |-> 0 ]

\* the layout values _prepare_badge_html puts in the template context, with the
\* locals title_lines and interests_top
PrepareLayout(title) ==
    LET title_lines == _calculate_title_lines(title)
        prof_layout == _calculate_professional_positioning(title)
        professional_top == prof_layout.professional_top
        company_height == LineHeight(9)
        total_content_height == TitleHeight(title_lines) + Flow100(4) + company_height
        professional_bottom == professional_top + total_content_height
        interests_top == professional_bottom + Flow100(10)
        max_interests_bottom_edge == Flow100(362) - Flow100(10)
        available_height == max_interests_bottom_edge - interests_top
        band == InterestsBand(available_height)
    IN  [ title_lines |-> title_lines,
          interests_top |-> interests_top,
          interests_bottom |-> Flow100(400) - interests_top - band.height,
          interests_width |-> band.width,
          interests_height |-> band.height,
          interests_left_offset |-> band.left_offset,
          professional_top |-> prof_layout.professional_top,
          graphic_offset |-> prof_layout.graphic_offset ]

\* how many times a title word is repeated at most
MaxTitleWords == 8

TitleWord == <<"M","e","m","b","e","r">>

RECURSIVE Repeat(_, _)
Repeat(word, n) ==
    IF n = 0 THEN <<>>
    ELSE IF n = 1 THEN word
    ELSE word \o <<" ">> \o Repeat(word, n - 1)

\* no title, blank titles, and titles of 1..MaxTitleWords words
Titles == { Repeat(TitleWord, n) : n \in 0..MaxTitleWords } \cup { <<" ">>, <<" ", " ">> }

-----------------------------------------------------------------------------
(* LocationNormalizer (src/location/location_normalizer.py).  The cache is a  *)
(* dict from raw location strings to normalized strings; the file holds the   *)
(* dict that was last dumped to it.  The geocoding service and the file       *)
(* system are the environment: a call is given the response of the service   *)
(* and whether the cache file can be written.                                 *)

EmptyCache == [ x \in {} |-> <<>> ]

\* Mutation of CacheStore: the value is stored under every key of the dict.
CacheStoreEveryKey(cache, key, value) ==
    [ x \in DOMAIN cache \cup {key} |-> value ]

\* self.cache[key] = value
CacheStore(cache, key, value) ==
    [ x \in DOMAIN cache \cup {key} |-> IF x = key THEN value ELSE cache[x] ]

\* a file that is no JSON document (truncated or overwritten while it was
\* being written)
Corrupt == [ state |-> "corrupt", dict |-> EmptyCache ]

\* the cache file does not exist
NoFile == [ state |-> "missing", dict |-> EmptyCache ]

\* the file after json.dump(cache, f)
JsonFile(cache) == [ state |-> "json", dict |-> cache ]

\* _load_cache: the dict of the file; {} when the file is missing or unreadable
_load_cache(file) ==
    IF file.state = "json" THEN file.dict ELSE EmptyCache

\* address details of a search result: a or b evaluates to the first truthy
\* operand
GeocodeResult(city, state, country, display_name) ==
    [ city |-> city, state |-> state, country |-> country,
      display_name |-> display_name ]

_abbreviate_state(state_name) ==
    IF state_name = <<"O","h","i","o">> THEN <<"O","H">>
    ELSE IF state_name = <<"T","e","x","a","s">> THEN <<"T","X">>
    ELSE state_name

RECURSIVE BeforeComma(_)
\* s.split(",")[0]
BeforeComma(s) ==
    IF s = <<>> \/ Head(s) = "," THEN <<>>
    ELSE <<Head(s)>> \o BeforeComma(Tail(s))

UnitedStates == { <<"U","n","i","t","e","d"," ","S","t","a","t","e","s">>,
                  <<"U","n","i","t","e","d"," ","S","t","a","t","e","s"," ","o","f"," ","A","m","e","r","i","c","a">> }

_format_normalized(r) ==
    IF r.country \in UnitedStates /\ r.city # None /\ r.state # None
    THEN r.city \o <<",", " ">> \o _abbreviate_state(r.state)
    ELSE IF r.country \in UnitedStates /\ r.state # None
    THEN r.state
    ELSE IF r.city # None /\ r.country # None
    THEN r.city \o <<",", " ">> \o r.country
    ELSE IF r.state # None /\ r.country # None
    THEN r.state \o <<",", " ">> \o r.country
    ELSE IF r.country # None
    THEN r.country
    ELSE BeforeComma(r.display_name)

\* Responses of the geocoding service to one request: status 200 with the list
\* of results, another status, or no response (requests.get raises).
Response(status, results) == [ status |-> status, results |-> results ]

RequestException == [ status |-> 0, results |-> <<>> ]

\* _geocode: the first result of a 200 response, None otherwise; the exception
\* of requests.get propagates
_geocode(response) ==
    IF response = RequestException THEN [ raised |-> TRUE, value |-> None ]
    ELSE IF response.status = 200 /\ response.results # <<>>
    THEN [ raised |-> FALSE, value |-> response.results[1] ]
    ELSE [ raised |-> FALSE, value |-> None ]

\* Mutation of NormalizeReturn: an exception of the lookup leaves normalize.
NormalizeRaises(value, cache, requested, saved) ==
    [ value |-> value, cache |-> cache, requested |-> requested,
      saved |-> saved, raised |-> requested /\ ~saved ]

\* The outcome of normalize: the value returned, the cache of the instance
\* afterwards, whether a request was sent and whether the cache was dumped to
\* the file.  No exception leaves normalize (except Exception).
NormalizeReturn(value, cache, requested, saved) ==
    [ value |-> value, cache |-> cache, requested |-> requested,
      saved |-> saved, raised |-> FALSE ]

\* Mutation of LookupOutcome: a lookup without result is not recorded.
LookupNoMarker(cache, location_str, response) ==
    LET found == _geocode(response)
    IN  IF found.raised \/ found.value = None
        THEN [ raised |-> found.raised, value |-> None, cache |-> cache ]
        ELSE [ raised |-> FALSE, value |-> _format_normalized(found.value),
               cache |-> CacheStore(cache, location_str,
                                    _format_normalized(found.value)) ]

\* _geocode and the entry stored for its answer: the normalized string, or the
\* empty string when there is no result; an exception of _geocode stores
\* nothing
LookupOutcome(cache, location_str, response) ==
    LET found == _geocode(response)
    IN  IF found.raised
        THEN [ raised |-> TRUE, value |-> None, cache |-> cache ]
        ELSE IF found.value # None
        THEN [ raised |-> FALSE, value |-> _format_normalized(found.value),
               cache |-> CacheStore(cache, location_str,
                                    _format_normalized(found.value)) ]
        ELSE [ raised |-> FALSE, value |-> None,
               cache |-> CacheStore(cache, location_str, <<>>) ]

\* the try block of normalize on a cache miss: the entry is stored in the dict
\* before _save_cache runs, and an exception of _geocode or of _save_cache
\* ends the call with None
NormalizeMiss(cache, location_str, response, can_write) ==
    LET looked_up == LookupOutcome(cache, location_str, response)
    IN  IF looked_up.raised
        THEN NormalizeReturn(None, cache, TRUE, FALSE)
        ELSE IF can_write
        THEN NormalizeReturn(looked_up.value, looked_up.cache, TRUE, TRUE)
        ELSE NormalizeReturn(None, looked_up.cache, TRUE, FALSE)

normalize(cache, location_str, response, can_write) ==
    IF ~HasNonSpace(location_str)
    THEN NormalizeReturn(None, cache, FALSE, FALSE)
    ELSE IF location_str \in DOMAIN cache
    THEN NormalizeReturn(cache[location_str], cache, FALSE, FALSE)
    ELSE NormalizeMiss(cache, location_str, response, can_write)

-----------------------------------------------------------------------------
(* LocationParser and BoundaryFetcher (src/location/location_renderer.py).    *)
(* region and country of a ParsedLocation are Optional[str]: Unset stands for *)
(* None there, so that a part that is the empty string stays distinct from a  *)
(* field that was never set.                                                  *)

\* region: Optional[str] = None
Unset == <<"None">>

\* truth value of an Optional[str]: None and "" are falsy
Truthy(x) == x # Unset /\ x # <<>>

RECURSIVE SplitCommaAcc(_, _, _)
SplitCommaAcc(s, cur, acc) ==
    IF s = <<>> THEN Append(acc, cur)
    ELSE IF Head(s) = ","
         THEN SplitCommaAcc(Tail(s), <<>>, Append(acc, cur))
         ELSE SplitCommaAcc(Tail(s), Append(cur, Head(s)), acc)

\* location_str.split(','): empty parts are kept, "" gives ['']
SplitComma(s) == SplitCommaAcc(s, <<>>, <<>>)

RECURSIVE LStrip(_)
LStrip(s) == IF s # <<>> /\ IsSpace(Head(s)) THEN LStrip(Tail(s)) ELSE s

RECURSIVE RStrip(_)
RStrip(s) ==
    IF s # <<>> /\ IsSpace(s[Len(s)]) THEN RStrip(SubSeq(s, 1, Len(s) - 1)) ELSE s

\* p.strip()
Strip(s) == RStrip(LStrip(s))
US_STATES ==
    {
      <<"A","L">>,
      <<"A","K">>,
      <<"A","Z">>,
      <<"A","R">>,
      <<"C","A">>,
      <<"C","O">>,
      <<"C","T">>,
      <<"D","E">>,
      <<"F","L">>,
      <<"G","A">>,
      <<"H","I">>,
      <<"I","D">>,
      <<"I","L">>,
      <<"I","N">>,
      <<"I","A">>,
      <<"K","S">>,
      <<"K","Y">>,
      <<"L","A">>,
      <<"M","E">>,
      <<"M","D">>,
      <<"M","A">>,
      <<"M","I">>,
      <<"M","N">>,
      <<"M","S">>,
      <<"M","O">>,
      <<"M","T">>,
      <<"N","E">>,
      <<"N","V">>,
      <<"N","H">>,
      <<"N","J">>,
      <<"N","M">>,
      <<"N","Y">>,
      <<"N","C">>,
      <<"N","D">>,
      <<"O","H">>,
      <<"O","K">>,
      <<"O","R">>,
      <<"P","A">>,
      <<"R","I">>,
      <<"S","C">>,
      <<"S","D">>,
      <<"T","N">>,
      <<"T","X">>,
      <<"U","T">>,
      <<"V","T">>,
      <<"V","A">>,
      <<"W","A">>,
      <<"W","V">>,
      <<"W","I">>,
      <<"W","Y">>,
      <<"D","C">>,
      <<"A","l","a","b","a","m","a">>,
      <<"A","l","a","s","k","a">>,
      <<"A","r","i","z","o","n","a">>,
      <<"A","r","k","a","n","s","a","s">>,
      <<"C","a","l","i","f","o","r","n","i","a">>,
      <<"C","o","l","o","r","a","d","o">>,
      <<"C","o","n","n","e","c","t","i","c","u","t">>,
      <<"D","e","l","a","w","a","r","e">>,
      <<"F","l","o","r","i","d","a">>,
      <<"G","e","o","r","g","i","a">>,
      <<"H","a","w","a","i","i">>,
      <<"I","d","a","h","o">>,
      <<"I","l","l","i","n","o","i","s">>,
      <<"I","n","d","i","a","n","a">>,
      <<"I","o","w","a">>,
      <<"K","a","n","s","a","s">>,
      <<"K","e","n","t","u","c","k","y">>,
      <<"L","o","u","i","s","i","a","n","a">>,
      <<"M","a","i","n","e">>,
      <<"M","a","r","y","l","a","n","d">>,
      <<"M","a","s","s","a","c","h","u","s","e","t","t","s">>,
      <<"M","i","c","h","i","g","a","n">>,
      <<"M","i","n","n","e","s","o","t","a">>,
      <<"M","i","s","s","i","s","s","i","p","p","i">>,
      <<"M","i","s","s","o","u","r","i">>,
      <<"M","o","n","t","a","n","a">>,
      <<"N","e","b","r","a","s","k","a">>,
      <<"N","e","v","a","d","a">>,
      <<"N","e","w"," ","H","a","m","p","s","h","i","r","e">>,
      <<"N","e","w"," ","J","e","r","s","e","y">>,
      <<"N","e","w"," ","M","e","x","i","c","o">>,
      <<"N","e","w"," ","Y","o","r","k">>,
      <<"N","o","r","t","h"," ","C","a","r","o","l","i","n","a">>,
      <<"N","o","r","t","h"," ","D","a","k","o","t","a">>,
      <<"O","h","i","o">>,
      <<"O","k","l","a","h","o","m","a">>,
      <<"O","r","e","g","o","n">>,
      <<"P","e","n","n","s","y","l","v","a","n","i","a">>,
      <<"R","h","o","d","e"," ","I","s","l","a","n","d">>,
      <<"S","o","u","t","h"," ","C","a","r","o","l","i","n","a">>,
      <<"S","o","u","t","h"," ","D","a","k","o","t","a">>,
      <<"T","e","n","n","e","s","s","e","e">>,
      <<"T","e","x","a","s">>,
      <<"U","t","a","h">>,
      <<"V","e","r","m","o","n","t">>,
      <<"V","i","r","g","i","n","i","a">>,
      <<"W","a","s","h","i","n","g","t","o","n">>,
      <<"W","e","s","t"," ","V","i","r","g","i","n","i","a">>,
      <<"W","i","s","c","o","n","s","i","n">>,
      <<"W","y","o","m","i","n","g">>,
      <<"D","i","s","t","r","i","c","t"," ","o","f"," ","C","o","l","u","m","b","i","a">> }

ParsedLocation(original, city, region, country) ==
    [ original |-> original, city |-> city, region |-> region,
      country |-> country ]

\* parts = [p.strip() for p in location_str.split(',')]
LocationParts(location_str) ==
    LET raw == SplitComma(location_str)
    IN  [ i \in 1..Len(raw) |-> Strip(raw[i]) ]

\* Mutation of LocationParser_parse: the second of two parts is always the
\* country.
ParseSecondIsCountry(location_str) ==
    LET parts == LocationParts(location_str)
    IN  IF Len(parts) = 1
        THEN ParsedLocation(location_str, parts[1], Unset, Unset)
        ELSE IF Len(parts) = 2
        THEN ParsedLocation(location_str, parts[1], Unset, parts[2])
        ELSE ParsedLocation(location_str, parts[1], parts[2], parts[3])

\* LocationParser.parse
LocationParser_parse(location_str) ==
    LET parts == LocationParts(location_str)
    IN  IF Len(parts) = 1
        THEN ParsedLocation(location_str, parts[1], Unset, Unset)
        ELSE IF Len(parts) = 2
        THEN IF parts[2] \in US_STATES
             THEN ParsedLocation(location_str, parts[1], parts[2],
                                 <<"U","n","i","t","e","d"," ","S","t","a","t","e","s">>)
             ELSE ParsedLocation(location_str, parts[1], Unset, parts[2])
        ELSE ParsedLocation(location_str, parts[1], parts[2], parts[3])

\* The geometry get_boundary returns, or None: kind is "state", "country" or
\* "none"; raised when reading a shapefile raises.
Boundary(kind, raised) == [ kind |-> kind, raised |-> raised ]

\* Mutation of get_boundary: a location without region and country is looked
\* up among the countries by its city.
GetBoundaryByCity(location, lookup) ==
    IF lookup = "raises" THEN Boundary("none", TRUE)
    ELSE IF Truthy(location.region) /\ lookup = "found"
    THEN Boundary("state", FALSE)
    ELSE IF lookup \in {"found", "country"}
    THEN Boundary("country", FALSE)
    ELSE Boundary("none", FALSE)

\* BoundaryFetcher.get_boundary.  The shapefiles are the environment: lookup
\* is "found" when the states and the countries hold a matching row,
\* "country" when only the countries do, "none" when neither does, and
\* "raises" when reading a shapefile raises.  A shapefile is read only when
\* the location has the field that is looked up.
get_boundary(location, lookup) ==
    IF Truthy(location.region) /\ lookup = "raises" THEN Boundary("none", TRUE)
    ELSE IF Truthy(location.region) /\ lookup = "found"
    THEN Boundary("state", FALSE)
    ELSE IF Truthy(location.country)
    THEN IF lookup = "raises" THEN Boundary("none", TRUE)
         ELSE IF lookup \in {"found", "country"} THEN Boundary("country", FALSE)
         ELSE Boundary("none", FALSE)
    ELSE Boundary("none", FALSE)

-----------------------------------------------------------------------------
(* CoordinateTransformer (src/location/location_renderer.py).  Coordinates,   *)
(* scale and pixels are exact rationals [n, d] with d > 0 in lowest terms;    *)
(* the rounding of the float operations is not modelled.                      *)

RECURSIVE GCD(_, _)
GCD(a, b) == IF b = 0 THEN a ELSE GCD(b, a % b)

Abs(x) == IF x < 0 THEN -x ELSE x

\* the rational n / d, d # 0
Frac(n, d) ==
    LET g == GCD(Abs(n), Abs(d))
        s == IF d < 0 THEN -1 ELSE 1
    IN  [ n |-> (s * n) \div g, d |-> (s * d) \div g ]

Whole(k) == [ n |-> k, d |-> 1 ]

FAdd(a, b) == Frac(a.n * b.d + b.n * a.d, a.d * b.d)

FSub(a, b) == Frac(a.n * b.d - b.n * a.d, a.d * b.d)

FMul(a, b) == Frac(a.n * b.n, a.d * b.d)

\* a / b, b # 0
FDiv(a, b) == Frac(a.n * b.d, a.d * b.n)

FLe(a, b) == a.n * b.d <= b.n * a.d

FLt(a, b) == a.n * b.d < b.n * a.d

\* Mutation of UniformScale: the larger of the two factors.
ScaleMax(scale_x, scale_y) == IF FLe(scale_x, scale_y) THEN scale_y ELSE scale_x

\* self.scale = min(scale_x, scale_y)
UniformScale(scale_x, scale_y) == IF FLe(scale_x, scale_y) THEN scale_x ELSE scale_y

padding_ratio == [ n |-> 1, d |-> 10 ]

\* a boundary is given by boundary.bounds
Bounds(minx, miny, maxx, maxy) ==
    [ minx |-> minx, miny |-> miny, maxx |-> maxx, maxy |-> maxy ]

ZeroDivisionError == [ raised |-> TRUE ]

\* CoordinateTransformer.__init__: a bounding box without width or without
\* height raises ZeroDivisionError when the scale factors are computed
CoordinateTransformer(bounds, canvas_size) ==
    LET canvas_width == Whole(canvas_size[1])
        canvas_height == Whole(canvas_size[2])
        geo_width == FSub(bounds.maxx, bounds.minx)
        geo_height == FSub(bounds.maxy, bounds.miny)
        inner == FSub(Whole(1), FMul(Whole(2), padding_ratio))
    IN  IF geo_width.n = 0 \/ geo_height.n = 0 THEN ZeroDivisionError
        ELSE LET scale_x == FDiv(FMul(canvas_width, inner), geo_width)
                 scale_y == FDiv(FMul(canvas_height, inner), geo_height)
                 scale == UniformScale(scale_x, scale_y)
                 scaled_width == FMul(geo_width, scale)
                 scaled_height == FMul(geo_height, scale)
             IN  [ raised |-> FALSE, geo_bounds |-> bounds, scale |-> scale,
                   offset_x |-> FDiv(FSub(canvas_width, scaled_width), Whole(2)),
                   offset_y |-> FDiv(FSub(canvas_height, scaled_height), Whole(2)) ]

\* CoordinateTransformer.geo_to_pixel of a transformer that was constructed
geo_to_pixel(transformer, lon, lat) ==
    LET b == transformer.geo_bounds
        norm_x == IF b.maxx # b.minx
                  THEN FDiv(FSub(lon, b.minx), FSub(b.maxx, b.minx))
                  ELSE [ n |-> 1, d |-> 2 ]
        norm_y == IF b.maxy # b.miny
                  THEN FDiv(FSub(b.maxy, lat), FSub(b.maxy, b.miny))
                  ELSE [ n |-> 1, d |-> 2 ]
    IN  [ x |-> FAdd(FMul(FMul(norm_x, FSub(b.maxx, b.minx)), transformer.scale),
                     transformer.offset_x),
          y |-> FAdd(FMul(FMul(norm_y, FSub(b.maxy, b.miny)), transformer.scale),
                     transformer.offset_y) ]

-----------------------------------------------------------------------------
(* render_location_graphic (src/location/location_renderer.py) and            *)
(* BadgeRendererHTML._get_location_graphic.  The stages of the pipeline are   *)
(* given by their outcome: geocode finds a point, finds none (a request       *)
(* error is answered with None by Geocoder.geocode) or raises; the shapefiles *)
(* hold a matching boundary, hold none, or reading them raises; the transform *)
(* and the SVG writer succeed or raise.                                       *)

Pipeline(geocode, boundary, transform, render) ==
    [ geocode |-> geocode, boundary |-> boundary, transform |-> transform,
      render |-> render ]

\* Mutation of RenderReturn: the exception of a stage leaves the function.
RenderPropagates(path, written, failed) ==
    [ path |-> path, written |-> written, raised |-> failed ]

\* the value returned, whether the SVG file was written, and whether an
\* exception left the function: the whole pipeline is inside try / except
\* Exception, which returns None
RenderReturn(path, written, failed) ==
    [ path |-> path, written |-> written, raised |-> FALSE ]

\* parse, geocode, get_boundary, CoordinateTransformer, SVGRenderer.render, in
\* this order; the first stage without a result ends the call
render_location_graphic(location_str, output_path, pipeline) ==
    LET parsed_location == LocationParser_parse(location_str)
        boundary == get_boundary(parsed_location, pipeline.boundary)
    IN  IF pipeline.geocode = "raises" THEN RenderReturn(None, FALSE, TRUE)
        ELSE IF pipeline.geocode = "none" THEN RenderReturn(None, FALSE, FALSE)
        ELSE IF boundary.raised THEN RenderReturn(None, FALSE, TRUE)
        ELSE IF boundary.kind = "none" THEN RenderReturn(None, FALSE, FALSE)
        ELSE IF pipeline.transform = "raises" THEN RenderReturn(None, FALSE, TRUE)
        ELSE IF pipeline.render = "raises" THEN RenderReturn(None, FALSE, TRUE)
        ELSE RenderReturn(output_path, TRUE, FALSE)

RECURSIVE ReplaceCommaSpace(_)
\* s.replace(", ", "_")
ReplaceCommaSpace(s) ==
    IF s = <<>> THEN <<>>
    ELSE IF Len(s) >= 2 /\ s[1] = "," /\ s[2] = " "
    THEN <<"_">> \o ReplaceCommaSpace(SubSeq(s, 3, Len(s)))
    ELSE <<Head(s)>> \o ReplaceCommaSpace(Tail(s))

\* s.replace(" ", "_")
ReplaceSpace(s) == [ i \in 1..Len(s) |-> IF s[i] = " " THEN "_" ELSE s[i] ]

\* the file name of the graphic of a normalized location
CacheFilename(normalized_location) ==
    ReplaceSpace(ReplaceCommaSpace(normalized_location)) \o <<".", "s", "v", "g">>

\* the path of the graphic or None, with what the call did on the way: the
\* normalizer's cache afterwards, whether normalize sent a request and dumped
\* the cache, and whether an SVG file was written
_get_location_graphic(cache, location_str, response, can_write, graphic_cached, pipeline) ==
    IF location_str = None
    THEN [ path |-> None, cache |-> cache, requested |-> FALSE, saved |-> FALSE,
           written |-> FALSE, normalized |-> None, raised |-> FALSE ]
    ELSE LET n == normalize(cache, location_str, response, can_write)
         IN  IF n.raised \/ n.value = None
             THEN [ path |-> None, cache |-> n.cache, requested |-> n.requested,
                    saved |-> n.saved, written |-> FALSE, normalized |-> None,
                    raised |-> n.raised ]
             ELSE IF graphic_cached
             THEN [ path |-> CacheFilename(n.value), cache |-> n.cache,
                    requested |-> n.requested, saved |-> n.saved,
                    written |-> FALSE, normalized |-> n.value, raised |-> FALSE ]
             ELSE LET r == render_location_graphic(n.value, CacheFilename(n.value),
                                                  pipeline)
                  IN  [ path |-> r.path, cache |-> n.cache,
                        requested |-> n.requested, saved |-> n.saved,
                        written |-> r.written, normalized |-> n.value,
                        raised |-> r.raised ]

-----------------------------------------------------------------------------
(* BadgeRendererHTML._prepare_badge_html: location graphic, interests image   *)
(* and tag rows.  The assignment map is the sequence of its (category, value) *)
(* items in insertion order.                                                  *)

\* tag_display_type_map of the renderer: the display types of the event's tag
\* categories; a category the event does not define is "standard"
tag_display_type_map(category_name) ==
    IF category_name \in {"Tier", "Chapter"} THEN "micro" ELSE "standard"

NoException == [ type |-> "none" ]

FileNotFoundError == [ type |-> "FileNotFoundError" ]

\* an exception of the location code that reached _prepare_badge_html
LocationError == [ type |-> "Exception" ]

\* the ValueError of _validate_micro_tag; its message interpolates the category
\* name, the value, max_chars and len(value)
ValueError(category_name, value, max_chars) ==
    [ type |-> "ValueError", category |-> category_name, value |-> value,
      max_chars |-> max_chars, chars |-> Len(value) ]

max_chars == 5

_validate_micro_tag(category_name, value) ==
    IF Len(value) > max_chars
    THEN ValueError(category_name, value, max_chars)
    ELSE NoException

TagMetadata(item) ==
    [ category |-> item[1], value |-> item[2],
      display_type |-> tag_display_type_map(item[1]) ]

MicroBadge(item) == [ category |-> item[1], value |-> item[2] ]

RECURSIVE TagLoopFirstMicroOnly(_, _, _)
\* Mutation of TagLoop: only the micro tag that becomes the micro badge is
\* validated.
TagLoopFirstMicroOnly(tag_items, tag_metadata, micro_badge) ==
    IF tag_items = <<>>
    THEN [ exception |-> NoException, tag_metadata |-> tag_metadata,
           micro_badge |-> micro_badge ]
    ELSE LET item == Head(tag_items)
             micro == tag_display_type_map(item[1]) = "micro"
             invalid == IF micro /\ micro_badge = None
                        THEN _validate_micro_tag(item[1], item[2])
                        ELSE NoException
         IN  IF invalid # NoException
             THEN [ exception |-> invalid, tag_metadata |-> tag_metadata,
                    micro_badge |-> micro_badge ]
             ELSE IF micro /\ micro_badge = None
             THEN TagLoopFirstMicroOnly(Tail(tag_items), tag_metadata, MicroBadge(item))
             ELSE TagLoopFirstMicroOnly(Tail(tag_items),
                                        Append(tag_metadata, TagMetadata(item)),
                                        micro_badge)

RECURSIVE TagLoopNoMicroInRows(_, _, _)
\* Mutation of TagLoop: a micro tag after the first is dropped instead of
\* being appended to tag_metadata.
TagLoopNoMicroInRows(tag_items, tag_metadata, micro_badge) ==
    IF tag_items = <<>>
    THEN [ exception |-> NoException, tag_metadata |-> tag_metadata,
           micro_badge |-> micro_badge ]
    ELSE LET item == Head(tag_items)
             micro == tag_display_type_map(item[1]) = "micro"
             invalid == IF micro THEN _validate_micro_tag(item[1], item[2])
                        ELSE NoException
         IN  IF invalid # NoException
             THEN [ exception |-> invalid, tag_metadata |-> tag_metadata,
                    micro_badge |-> micro_badge ]
             ELSE IF micro
             THEN TagLoopNoMicroInRows(Tail(tag_items), tag_metadata,
                                       IF micro_badge = None THEN MicroBadge(item)
                                       ELSE micro_badge)
             ELSE TagLoopNoMicroInRows(Tail(tag_items),
                                       Append(tag_metadata, TagMetadata(item)),
                                       micro_badge)
RECURSIVE TagLoop(_, _, _)
\* for category_name, value in tag_items: every micro tag is validated, the
\* first one becomes the micro badge, every other tag is appended to
\* tag_metadata
TagLoop(tag_items, tag_metadata, micro_badge) ==
    IF tag_items = <<>>
    THEN [ exception |-> NoException, tag_metadata |-> tag_metadata,
           micro_badge |-> micro_badge ]
    ELSE LET item == Head(tag_items)
             micro == tag_display_type_map(item[1]) = "micro"
             invalid == IF micro THEN _validate_micro_tag(item[1], item[2])
                        ELSE NoException
         IN  IF invalid # NoException
             THEN [ exception |-> invalid, tag_metadata |-> tag_metadata,
                    micro_badge |-> micro_badge ]
             ELSE IF micro /\ micro_badge = None
             THEN TagLoop(Tail(tag_items), tag_metadata, MicroBadge(item))
             ELSE TagLoop(Tail(tag_items),
                          Append(tag_metadata, TagMetadata(item)), micro_badge)

\* Mutation of TopTags: the top row takes three tags.
TopTagsThree(tag_metadata) ==
    SubSeq(tag_metadata, 1, IF Len(tag_metadata) < 3 THEN Len(tag_metadata) ELSE 3)

\* tag_metadata[:2]
TopTags(tag_metadata) ==
    SubSeq(tag_metadata, 1, IF Len(tag_metadata) < 2 THEN Len(tag_metadata) ELSE 2)

\* tag_metadata[2:]
BottomTags(tag_metadata) == SubSeq(tag_metadata, 3, Len(tag_metadata))

TagValuesOf(tag_row) == [ i \in 1..Len(tag_row) |-> tag_row[i].value ]

\* 2.25 if micro_badge else 2.7, in hundredths of an inch
bottom_max_width(micro_badge) == IF micro_badge # None THEN 225 ELSE 270

\* The context of the template, or the exception that ended the call.  The
\* location graphic is resolved first, then the interests image is looked up,
\* then the tags are validated and laid out in rows; what follows an exception
\* is not computed.
PrepareTags(attendee, tags, env) ==
    LET graphic == _get_location_graphic(env.cache, attendee.location,
                                         env.response, env.can_write,
                                         env.graphic_cached, env.pipeline)
        image_missing == attendee.has_interests /\ ~env.interests_image_exists
        loop == TagLoop(tags, <<>>, None)
        exception == IF graphic.raised THEN LocationError
                     ELSE IF image_missing THEN FileNotFoundError
                     ELSE loop.exception
        done == exception = NoException
        top_tags == TopTags(loop.tag_metadata)
        bottom_tags == BottomTags(loop.tag_metadata)
    IN  [ exception |-> exception,
          location_graphic_path |-> graphic.path,
          location_requested |-> graphic.requested,
          location_normalized |-> graphic.normalized,
          location_written |-> graphic.written,
          interests_image |-> attendee.has_interests /\ ~image_missing,
          tag_metadata |-> IF done THEN loop.tag_metadata ELSE <<>>,
          micro_badge |-> IF done THEN loop.micro_badge ELSE None,
          top_tags |-> IF done THEN top_tags ELSE <<>>,
          bottom_tags |-> IF done THEN bottom_tags ELSE <<>>,
          top_max_width |-> 270,
          bottom_max_width |-> bottom_max_width(loop.micro_badge),
          top_tag_styling |->
              IF done
              THEN _calculate_tag_row_styling(TagValuesOf(top_tags), 270)
              ELSE None,
          bottom_tag_styling |->
              IF done
              THEN _calculate_tag_row_styling(TagValuesOf(bottom_tags),
                                              bottom_max_width(loop.micro_badge))
              ELSE None ]

-----------------------------------------------------------------------------
(* Inputs of _prepare_badge_html *)

MaxAssigned == 4

TagCategories == { "Tier", "Chapter", "Role", "Team" }

\* the values an attendee may be assigned in a category: 5 and 6 characters for
\* the micro categories, 6 characters and a value wider than the badge for the
\* standard ones
AssignableValues(category_name) ==
    IF tag_display_type_map(category_name) = "micro"
    THEN { <<"A","d","m","i","n">>, <<"M","e","m","b","e","r">> }
    ELSE IF category_name = "Role" THEN { <<"M","e","m","b","e","r">> }
    ELSE { Repeat(TitleWord, 8) }

\* the categories of an assignment map are distinct
DistinctCategories(items) ==
    \A i, j \in 1..Len(items) : items[i][1] = items[j][1] => i = j

TagItems == { <<c, v>> : c \in TagCategories, v \in { <<"A","d","m","i","n">>, <<"M","e","m","b","e","r">>, Repeat(TitleWord, 8) } }

RECURSIVE Assignments(_)
\* assignment maps of at most n tags
Assignments(n) ==
    IF n = 0 THEN { <<>> }
    ELSE Assignments(n - 1)
         \cup { x \in { Append(a, item) :
                            a \in { y \in Assignments(n - 1) : Len(y) = n - 1 },
                            item \in { t \in TagItems : t[2] \in AssignableValues(t[1]) } } :
                    DistinctCategories(x) }

Dayton == <<"D","a","y","t","o","n",","," ","O","h","i","o">>

\* attendee.location: missing, blank, or a place
Locations == { None, <<" ">>, Dayton }

GeocodeResults ==
    { GeocodeResult(<<"D","a","y","t","o","n">>, <<"O","h","i","o">>, <<"U","n","i","t","e","d"," ","S","t","a","t","e","s">>,
                    <<"D","a","y","t","o","n",","," ","O","h","i","o",","," ","U","n","i","t","e","d"," ","S","t","a","t","e","s">>),
      GeocodeResult(None, None, <<"J","a","p","a","n">>, <<"J","a","p","a","n">>),
      GeocodeResult(None, None, None, <<>>) }

Responses ==
    { Response(200, <<r>>) : r \in GeocodeResults }
        \cup { Response(200, <<>>), Response(503, <<>>), RequestException }

\* the normalizer's cache when a badge is prepared: no entry for the place, a
\* normalized string, or the failure marker
Caches ==
    { EmptyCache, CacheStore(EmptyCache, Dayton, <<"D","a","y","t","o","n",","," ","O","H">>),
      CacheStore(EmptyCache, Dayton, <<>>) }

AllStagesOk == Pipeline("found", "found", "ok", "ok")

Pipelines ==
    { AllStagesOk,
      Pipeline("none", "found", "ok", "ok"), Pipeline("raises", "found", "ok", "ok"),
      Pipeline("found", "none", "ok", "ok"), Pipeline("found", "raises", "ok", "ok"),
      Pipeline("found", "found", "raises", "ok"),
      Pipeline("found", "found", "ok", "raises") }

Env(cache, response, can_write, graphic_cached, pipeline, interests_image_exists) ==
    [ cache |-> cache, response |-> response, can_write |-> can_write,
      graphic_cached |-> graphic_cached, pipeline |-> pipeline,
      interests_image_exists |-> interests_image_exists ]

\* an attendee without interests, with interests and their image, with interests
\* and no image
Interests == { <<FALSE, FALSE>>, <<TRUE, TRUE>>, <<TRUE, FALSE>> }

BadgeArguments(location, interests, assigned, env) ==
    [ title |-> <<>>, location |-> location, has_interests |-> interests[1],
      tags |-> assigned, env |-> env ]

\* a place whose graphic is in the graphics cache needs no pipeline, and a
\* place that is not normalized needs neither
FoundResponses == { Response(200, <<r>>) : r \in GeocodeResults }

LocationCases ==
    { <<c, r, w, g, p>> \in Caches \X Responses \X BOOLEAN \X BOOLEAN \X Pipelines :
          /\ g => p = AllStagesOk
          /\ c # EmptyCache => (r = RequestException /\ w)
          /\ (c = EmptyCache /\ ~(r \in FoundResponses /\ w))
                 => (~g /\ p = AllStagesOk) }

\* Badges of attendees without a place (or a blank one) and any assignment
\* map, and badges of attendees with a place, at most one tag, and every state
\* of the caches and outcome of the location pipeline.
BadgeArgs ==
    { BadgeArguments(None, i, a,
                     Env(EmptyCache, RequestException, TRUE, FALSE, AllStagesOk, i[2])) :
          i \in Interests, a \in Assignments(MaxAssigned) }
    \cup
    { BadgeArguments(<<" ">>, i, a,
                     Env(EmptyCache, RequestException, TRUE, FALSE, AllStagesOk, i[2])) :
          i \in Interests, a \in Assignments(1) }
    \cup
    { BadgeArguments(Dayton, i, a, Env(e[1], e[2], e[3], e[4], e[5], i[2])) :
          i \in Interests,
          a \in { x \in Assignments(1) : \A k \in 1..Len(x) : x[k][1] = "Tier" },
          e \in LocationCases }

-----------------------------------------------------------------------------
(* Geocoder (src/location/location_renderer.py).  Time is counted in quarter  *)
(* seconds; time.sleep(d) returns after d or later.                           *)

\* self.min_request_interval = 1.0, in quarter seconds
min_request_interval == 4

\* Mutation of _rate_limit: the time is recorded without waiting.
RateLimitNoSleep(now, last, oversleep) == now

\* the time at which _rate_limit returns, which it records as
\* last_request_time
_rate_limit(now, last, oversleep) ==
    LET elapsed == now - last
    IN  IF elapsed < min_request_interval
        THEN now + (min_request_interval - elapsed) + oversleep
        ELSE now

-----------------------------------------------------------------------------
(* Specification.  The name and tag-row computations are request-scoped: a   *)
(* behaviour starts with the arguments of one call and the call returns.     *)
(* A renderer prepares one badge after another.                              *)

\* result before the operation has returned
Pending == <<>>

NameArgs ==
    { [ name |-> name, max_width |-> w, default_size |-> sz[1], min_size |-> sz[2] ] :
        name \in Names, w \in NameWidths, sz \in NameSizes }

TagArgs ==
    { [ tag_values |-> r, max_width |-> w ] : r \in TagRows(MaxTags), w \in TagWidths }

ParseArgs == { [ name |-> name ] : name \in Names }

\* no Geocoder has been created
NoGeocoder == clock = 0 /\ last_request_time = 0 /\ sent = <<>>

\* no LocationNormalizer has been created
NoNormalizers == normalizers = <<>> /\ cache_file = NoFile /\ history = <<>>

Init ==
    /\ result = Pending
    /\ NoGeocoder
    /\ NoNormalizers
    /\ \/ op = "get_display_name" /\ args \in NameArgs
       \/ op = "parse" /\ args \in ParseArgs
       \/ op = "_calculate_tag_row_styling" /\ args \in TagArgs
       \/ op = "_prepare_badge_html" /\ args \in BadgeArgs

GetDisplayName ==
    /\ op = "get_display_name"
    /\ result = Pending
    /\ result' = get_display_name(args.name, args.max_width,
                                  args.default_size, args.min_size)
    /\ UNCHANGED <<op, args>>
    /\ UNCHANGED <<geocoderVars, normalizerVars>>

ParseName ==
    /\ op = "parse"
    /\ result = Pending
    /\ result' = parse(args.name)
    /\ UNCHANGED <<op, args>>
    /\ UNCHANGED <<geocoderVars, normalizerVars>>

CalculateTagRowStyling ==
    /\ op = "_calculate_tag_row_styling"
    /\ result = Pending
    /\ result' = _calculate_tag_row_styling(args.tag_values, args.max_width)
    /\ UNCHANGED <<op, args>>
    /\ UNCHANGED <<geocoderVars, normalizerVars>>

\* the titles of the attendees whose badges are prepared in a row: every title
\* for attendees with nothing but a name and a title, no title and a one-word
\* title for the others
TitlesOf(attendee) ==
    IF attendee.location = None /\ ~attendee.has_interests /\ attendee.tags = <<>>
    THEN Titles
    ELSE { <<>>, TitleWord }

PrepareBadgeLayout ==
    /\ op = "_prepare_badge_html"
    /\ \E title \in TitlesOf(args) :
        /\ args' = [ args EXCEPT !.title = title ]
        /\ result' = PrepareLayout(title) @@ PrepareTags(args, args.tags, args.env)
    /\ UNCHANGED op
    /\ UNCHANGED <<geocoderVars, normalizerVars>>

Next ==
    \/ GetDisplayName
    \/ ParseName
    \/ CalculateTagRowStyling
    \/ PrepareBadgeLayout

Spec == Init /\ [][Next]_vars

-----------------------------------------------------------------------------
(* Specification of one Geocoder instance: geocode is called again and again, *)
(* and time passes between the calls.                                         *)

MaxRequests == 3

MaxOversleep == 1

MaxLatency == 2

MaxClock == 14

\* time.time() when the Geocoder is created: the epoch is long past
StartTimes == { min_request_interval, min_request_interval + 1 }

InitGeocoder ==
    /\ op = "geocode"
    /\ args = <<>>
    /\ result = Pending
    /\ clock \in StartTimes
    /\ last_request_time = 0
    /\ sent = <<>>
    /\ NoNormalizers

\* Geocoder.geocode: _rate_limit waits and records the time, the request is
\* sent, and the call returns a point or None when the answer (or an error of
\* the request) has arrived
Geocode ==
    /\ op = "geocode"
    /\ Len(sent) < MaxRequests
    /\ \E oversleep \in 0..MaxOversleep, latency \in 0..MaxLatency,
          geocoded \in { "found", "none" } :
          LET now == _rate_limit(clock, last_request_time, oversleep)
          IN  /\ now + latency <= MaxClock
              /\ last_request_time' = now
              /\ sent' = Append(sent, now)
              /\ clock' = now + latency
              /\ result' = geocoded
    /\ UNCHANGED <<op, args, normalizerVars>>

\* time passes between two calls
Elapse ==
    /\ op = "geocode"
    /\ clock < MaxClock
    /\ clock' = clock + 1
    /\ UNCHANGED <<op, args, result, last_request_time, sent, normalizerVars>>

NextGeocoder ==
    \/ Geocode
    \/ Elapse

SpecGeocoder == InitGeocoder /\ [][NextGeocoder]_vars

-----------------------------------------------------------------------------
(* Specification of the renders that share the normalization cache file.     *)
(* Each render creates its LocationNormalizer, which loads the file, and      *)
(* normalizes location strings; a normalize that misses the cache sends its   *)
(* request, stores the answer, opens the file for writing (which truncates    *)
(* it) and dumps its dict.  The steps of different instances interleave.      *)
(* A dump that follows another instance's dump into the same open file        *)
(* leaves either its own document or, when it is the shorter one, a file      *)
(* that is no JSON document.                                                  *)

MaxCalls == 3

MaxRenders == 1

Instances == { 1, 2 }

Atlantis == <<"A","t","l","a","n","t","i","s">>

LocationStrings == { Dayton, Atlantis }

\* the geocoding service knows Dayton and does not know Atlantis
ServiceResults(location_str) ==
    IF location_str = Dayton
    THEN << GeocodeResult(<<"D","a","y","t","o","n">>, <<"O","h","i","o">>, <<"U","n","i","t","e","d"," ","S","t","a","t","e","s">>,
                          <<"D","a","y","t","o","n",","," ","O","h","i","o",","," ","U","n","i","t","e","d"," ","S","t","a","t","e","s">>) >>
    ELSE <<>>

\* the answers a request may get: the service's results, an error status, or
\* none (the request raises)
ServiceResponses(location_str) ==
    { Response(200, ServiceResults(location_str)), Response(503, <<>>),
      RequestException }

NoCall == [ called |-> FALSE, location_str |-> None, value |-> None ]

NewNormalizer ==
    [ pc |-> "new", cache |-> EmptyCache, location_str |-> None,
      value |-> None, returned |-> NoCall, disturbed |-> FALSE ]

Returned(location_str, value) ==
    [ called |-> TRUE, location_str |-> location_str, value |-> value ]

\* history of an instance: the number of requests it sent for each string, the
\* strings whose request was answered, the strings whose request raised, the
\* strings requested again after an answer and after an exception, and the
\* strings a call answered from the cache
NoRequests ==
    [ requests |-> [ x \in LocationStrings |-> 0 ], responded |-> {},
      raised |-> {}, again_answered |-> {}, again_raised |-> {}, hits |-> {} ]

\* the history of instance n after one more request for location_str
Requested(n, location_str) ==
    [ history.of[n] EXCEPT
          !.requests[location_str] = @ + 1,
          !.again_answered =
              IF location_str \in history.of[n].responded
              THEN @ \cup {location_str} ELSE @,
          !.again_raised =
              IF location_str \in history.of[n].raised
              THEN @ \cup {location_str} ELSE @ ]

InitNormalizers ==
    /\ op = "normalize"
    /\ args = <<>>
    /\ result = Pending
    /\ NoGeocoder
    /\ normalizers = [ n \in Instances |-> NewNormalizer ]
    /\ cache_file \in { NoFile, JsonFile(CacheStore(EmptyCache, Atlantis, <<>>)) }
    /\ history = [ of |-> [ n \in Instances |-> NoRequests ], calls |-> 0,
                   renders |-> 0 ]

\* LocationNormalizer.__init__: self.cache = self._load_cache()
Construct(n) ==
    /\ op = "normalize"
    /\ normalizers[n].pc = "new"
    /\ normalizers' = [ normalizers EXCEPT ![n].pc = "idle",
                                           ![n].cache = _load_cache(cache_file) ]
    /\ UNCHANGED <<op, args, result, geocoderVars, cache_file, history>>

\* the render ends; the next render of this process creates a new instance
EndRender(n) ==
    /\ op = "normalize"
    /\ normalizers[n].pc = "idle"
    /\ history.renders < MaxRenders
    /\ normalizers' = [ normalizers EXCEPT ![n] = NewNormalizer ]
    /\ history' = [ history EXCEPT !.of[n] = NoRequests, !.renders = @ + 1 ]
    /\ UNCHANGED <<op, args, result, geocoderVars, cache_file>>

\* normalize(location_str) up to the request: a blank string and a cached
\* string are answered at once
Call(n) ==
    /\ op = "normalize"
    /\ normalizers[n].pc = "idle"
    /\ history.calls < MaxCalls
    /\ \E location_str \in LocationStrings :
          LET cache == normalizers[n].cache
          IN  IF HasNonSpace(location_str) /\ location_str \notin DOMAIN cache
              THEN /\ normalizers' = [ normalizers EXCEPT
                                           ![n].pc = "lookup",
                                           ![n].location_str = location_str ]
                   /\ history' = [ history EXCEPT !.calls = @ + 1 ]
              ELSE /\ normalizers' = [ normalizers EXCEPT
                          ![n].returned =
                              Returned(location_str,
                                       normalize(cache, location_str,
                                                 RequestException, TRUE).value) ]
                   /\ history' = [ history EXCEPT
                                       !.calls = @ + 1,
                                       !.of[n].hits = @ \cup {location_str} ]
    /\ UNCHANGED <<op, args, result, geocoderVars, cache_file>>

\* the request and the entry stored for its answer; an exception ends the call
\* with None
Lookup(n) ==
    /\ op = "normalize"
    /\ normalizers[n].pc = "lookup"
    /\ \E response \in ServiceResponses(normalizers[n].location_str) :
          LET location_str == normalizers[n].location_str
              looked_up == LookupOutcome(normalizers[n].cache, location_str, response)
          IN  IF looked_up.raised
              THEN /\ normalizers' = [ normalizers EXCEPT
                                           ![n].pc = "idle",
                                           ![n].returned = Returned(location_str, None) ]
                   /\ history' = [ history EXCEPT
                          !.of[n] = [ Requested(n, location_str) EXCEPT
                                          !.raised = @ \cup {location_str} ] ]
              ELSE /\ normalizers' = [ normalizers EXCEPT
                                           ![n].pc = "save",
                                           ![n].cache = looked_up.cache,
                                           ![n].value = looked_up.value ]
                   /\ history' = [ history EXCEPT
                          !.of[n] = [ Requested(n, location_str) EXCEPT
                                          !.responded = @ \cup {location_str} ] ]
    /\ UNCHANGED <<op, args, result, geocoderVars, cache_file>>

\* _save_cache: open(self.cache_file, 'w') truncates the file; when the file
\* cannot be opened the exception ends the call with None
OpenCacheFile(n) ==
    /\ op = "normalize"
    /\ normalizers[n].pc = "save"
    /\ \E can_write \in BOOLEAN :
          IF can_write
          THEN /\ normalizers' = [ normalizers EXCEPT ![n].pc = "dump",
                                                      ![n].disturbed = FALSE ]
               /\ cache_file' = Corrupt
          ELSE /\ normalizers' = [ normalizers EXCEPT
                                       ![n].pc = "idle",
                                       ![n].returned =
                                           Returned(normalizers[n].location_str, None) ]
               /\ UNCHANGED cache_file
    /\ UNCHANGED <<op, args, result, geocoderVars, history>>

\* _save_cache: json.dump(self.cache, f) from the start of the file, and the
\* return of normalize
Dump(n) ==
    /\ op = "normalize"
    /\ normalizers[n].pc = "dump"
    /\ \E content \in IF normalizers[n].disturbed
                     THEN { JsonFile(normalizers[n].cache), Corrupt }
                     ELSE { JsonFile(normalizers[n].cache) } :
          cache_file' = content
    /\ normalizers' =
           [ m \in Instances |->
                 IF m = n
                 THEN [ normalizers[n] EXCEPT
                            !.pc = "idle",
                            !.returned = Returned(normalizers[n].location_str,
                                                  normalizers[n].value) ]
                 ELSE IF normalizers[m].pc = "dump"
                 THEN [ normalizers[m] EXCEPT !.disturbed = TRUE ]
                 ELSE normalizers[m] ]
    /\ UNCHANGED <<op, args, result, geocoderVars, history>>

NextNormalizers ==
    \/ \E n \in Instances : Construct(n)
    \/ \E n \in Instances : EndRender(n)
    \/ \E n \in Instances : Call(n)
    \/ \E n \in Instances : Lookup(n)
    \/ \E n \in Instances : OpenCacheFile(n)
    \/ \E n \in Instances : Dump(n)

SpecNormalizers == InitNormalizers /\ [][NextNormalizers]_vars

-----------------------------------------------------------------------------
(* Specification of the location parser and of render_location_graphic: one   *)
(* call with a location string written as comma-separated parts.              *)

MaxParts == 4

\* the parts a location string is written with: nothing, a city, names and an
\* abbreviation of US_STATES, a country
PartValues ==
    { <<>>, <<"D","a","y","t","o","n">>, <<"O","h","i","o">>, <<"O","H">>,
      <<"N","e","w"," ","Y","o","r","k">>, <<"F","r","a","n","c","e">> }

RECURSIVE PartSeqs(_)
\* sequences of exactly n parts
PartSeqs(n) ==
    IF n = 0 THEN { <<>> }
    ELSE { Append(ps, p) : ps \in PartSeqs(n - 1), p \in PartValues }

\* how the parts are separated: "a,b", "a, b" or "a , b"
Separators == { <<",">>, <<",", " ">>, <<" ", ",", " ">> }

RECURSIVE JoinWith(_, _)
\* sep.join(parts)
JoinWith(parts, sep) ==
    IF parts = <<>> THEN <<>>
    ELSE IF Len(parts) = 1 THEN parts[1]
    ELSE parts[1] \o sep \o JoinWith(Tail(parts), sep)

LocationArgs ==
    { [ parts |-> ps, location_str |-> JoinWith(ps, sep) ] :
        ps \in UNION { PartSeqs(n) : n \in 1..MaxParts }, sep \in Separators }

\* the shapefiles hold the country of the location but not its state
CountryOnly == Pipeline("found", "country", "ok", "ok")

RenderArgs ==
    { [ parts |-> ps, location_str |-> JoinWith(ps, <<",", " ">>),
        output_path |-> CacheFilename(JoinWith(ps, <<",", " ">>)),
        pipeline |-> pipeline ] :
        ps \in UNION { PartSeqs(n) : n \in 1..3 },
        pipeline \in Pipelines \cup { CountryOnly } }

InitLocation ==
    /\ result = Pending
    /\ NoGeocoder
    /\ NoNormalizers
    /\ \/ op = "LocationParser.parse" /\ args \in LocationArgs
       \/ op = "render_location_graphic" /\ args \in RenderArgs

ParseLocation ==
    /\ op = "LocationParser.parse"
    /\ result = Pending
    /\ result' = LocationParser_parse(args.location_str)
    /\ UNCHANGED <<op, args>>
    /\ UNCHANGED <<geocoderVars, normalizerVars>>

RenderLocationGraphic ==
    /\ op = "render_location_graphic"
    /\ result = Pending
    /\ result' = render_location_graphic(args.location_str, args.output_path,
                                         args.pipeline)
    /\ UNCHANGED <<op, args>>
    /\ UNCHANGED <<geocoderVars, normalizerVars>>

NextLocation ==
    \/ ParseLocation
    \/ RenderLocationGraphic

SpecLocation == InitLocation /\ [][NextLocation]_vars

-----------------------------------------------------------------------------
(* Specification of the coordinate transformer: one transformer is built for *)
(* a bounding box and a canvas and maps two points of the box.                *)

MaxCoord == 2

\* longitudes and latitudes, in halves of a degree
Coords == { Frac(k, 2) : k \in -1..MaxCoord }

BoundingBoxes ==
    { Bounds(minx, miny, maxx, maxy) :
        minx \in Coords, miny \in Coords, maxx \in Coords, maxy \in Coords }

\* canvas_size: the 144 x 144 canvas of the badge, a wide and a tall one
CanvasSizes == { <<144, 144>>, <<144, 72>>, <<100, 150>> }

InBox(b, lon, lat) ==
    FLe(b.minx, lon) /\ FLe(lon, b.maxx) /\ FLe(b.miny, lat) /\ FLe(lat, b.maxy)

TransformArgs ==
    { a \in [ bounds : BoundingBoxes, canvas_size : CanvasSizes,
              lon1 : Coords, lat1 : Coords, lon2 : Coords, lat2 : Coords ] :
        /\ FLe(a.bounds.minx, a.bounds.maxx) /\ FLe(a.bounds.miny, a.bounds.maxy)
        /\ InBox(a.bounds, a.lon1, a.lat1)
        /\ InBox(a.bounds, a.lon2, a.lat2) }

InitTransform ==
    /\ result = Pending
    /\ NoGeocoder
    /\ NoNormalizers
    /\ op = "geo_to_pixel"
    /\ args \in TransformArgs

\* CoordinateTransformer(boundary, canvas_size) and geo_to_pixel of the two
\* points
GeoToPixel ==
    /\ op = "geo_to_pixel"
    /\ result = Pending
    /\ LET transformer == CoordinateTransformer(args.bounds, args.canvas_size)
       IN  result' = IF transformer.raised THEN transformer
                     ELSE [ raised |-> FALSE, transformer |-> transformer,
                            p1 |-> geo_to_pixel(transformer, args.lon1, args.lat1),
                            p2 |-> geo_to_pixel(transformer, args.lon2, args.lat2) ]
    /\ UNCHANGED <<op, args>>
    /\ UNCHANGED <<geocoderVars, normalizerVars>>

NextTransform == GeoToPixel

SpecTransform == InitTransform /\ [][NextTransform]_vars

-----------------------------------------------------------------------------
(* Specification of one badge render path that misses both location caches:   *)
(* _get_location_graphic calls LocationNormalizer.normalize, which sleeps     *)
(* retry_delay and sends its request, and then render_location_graphic,       *)
(* which creates a Geocoder and calls geocode.  op is the position on the     *)
(* path.                                                                      *)

\* retry_delay: float = 1.0, in quarter seconds
retry_delay == 4

InitRenderPath ==
    /\ op = "_get_location_graphic"
    /\ args = [ location_str |-> Dayton ]
    /\ result = Pending
    /\ clock \in StartTimes
    /\ last_request_time = 0
    /\ sent = <<>>
    /\ NoNormalizers

\* normalize on a cache miss: time.sleep(retry_delay), then requests.get; the
\* call returns when the answer has arrived
PathNormalize ==
    /\ op = "_get_location_graphic"
    /\ \E oversleep \in 0..MaxOversleep, latency \in 0..MaxLatency,
          normalized \in { <<"D","a","y","t","o","n",","," ","O","H">>, None } :
          LET now == clock + retry_delay + oversleep
          IN  /\ now + latency <= MaxClock
              /\ sent' = Append(sent, now)
              /\ clock' = now + latency
              /\ args' = [ args EXCEPT !.location_str = normalized ]
              /\ op' = IF normalized = None THEN "returned"
                       ELSE "render_location_graphic"
              /\ result' = IF normalized = None THEN None ELSE Pending
    /\ UNCHANGED <<last_request_time, normalizerVars>>

\* render_location_graphic: geocoder = Geocoder() starts with
\* last_request_time = 0, and geocode calls _rate_limit before its request
PathRender ==
    /\ op = "render_location_graphic"
    /\ \E oversleep \in 0..MaxOversleep, latency \in 0..MaxLatency,
          pipeline \in Pipelines :
          LET now == _rate_limit(clock, 0, oversleep)
          IN  /\ now + latency <= MaxClock
              /\ last_request_time' = now
              /\ sent' = Append(sent, now)
              /\ clock' = now + latency
              /\ result' = render_location_graphic(args.location_str,
                               CacheFilename(args.location_str), pipeline)
    /\ op' = "returned"
    /\ UNCHANGED <<args, normalizerVars>>

\* time passes before the path starts and between normalize and
\* render_location_graphic (the cache is saved, the cached SVG is looked for)
PathElapse ==
    /\ op \in { "_get_location_graphic", "render_location_graphic" }
    /\ clock < MaxClock
    /\ clock' = clock + 1
    /\ UNCHANGED <<op, args, result, last_request_time, sent, normalizerVars>>

NextRenderPath ==
    \/ PathNormalize
    \/ PathRender
    \/ PathElapse

SpecRenderPath == InitRenderPath /\ [][NextRenderPath]_vars

-----------------------------------------------------------------------------
(* Specification of get_display_name with font sizes that are not whole       *)
(* points: default_font_size and min_font_size are floats.                    *)

\* (default, min) font sizes in half points: 18/12.5pt, 18.5/12pt, 12.5/12.5pt
FractionalSizes == { <<36, 25>>, <<37, 24>>, <<25, 25>> }

\* max_width in hundredths of an inch
FractionalWidths == { 270, 86, 60, 30 }

FractionalNameArgs ==
    { [ name |-> name, max_width |-> w, default_size |-> sz[1], min_size |-> sz[2] ] :
        name \in Names, w \in FractionalWidths, sz \in FractionalSizes }

InitSizes ==
    /\ result = Pending
    /\ NoGeocoder
    /\ NoNormalizers
    /\ op = "get_display_name"
    /\ args \in FractionalNameArgs

NextSizes == GetDisplayName

SpecSizes == InitSizes /\ [][NextSizes]_vars

-----------------------------------------------------------------------------
(* Properties of name truncation *)

NameDone == op = "get_display_name" /\ result # Pending

\* width(text, font, size) <= 0.92 * max_width, by the width oracle
Within92(text, size, max_width) ==
    WidthUnits(text, size) * 100 <= 92 * Inches100(max_width)

\* the sizes default_size - 1pt, default_size - 2pt, ... down to min_size (half points)
StepSizes(default_size, min_size) ==
    { s \in min_size..(default_size - 2) : (default_size - s) % 2 = 0 }

Largest(S) == CHOOSE s \in S : \A t \in S : t <= s

\* the stage-2 best-effort fallback: the reduced text at min_size, fitting at no size
BestEffort ==
    /\ result.stage = 2
    /\ result.font_size = args.min_size
    /\ ~Within92(result.text, args.min_size, args.max_width)

\* C1 (as claimed): every result of truncate / get_display_name fits within 0.92 x
\* max_width at the returned font size, unless it is the stage-2 best-effort fallback.
C1_FitInvariant ==
    NameDone =>
        \/ Within92(result.text, result.font_size, args.max_width)
        \/ BestEffort

\* C1 (amended): for every name that has a non-whitespace character, the result fits
\* within 0.92 x max_width at the returned font size, unless it is the stage-2
\* best-effort fallback.
C1_FitInvariantNonBlank ==
    (NameDone /\ HasNonSpace(args.name)) =>
        \/ Within92(result.text, result.font_size, args.max_width)
        \/ BestEffort

\* a long name was shrunk or reduced and its result fits
C1_Witness ==
    /\ NameDone
    /\ HasNonSpace(args.name)
    /\ result.stage = 2
    /\ result.font_size > args.min_size
    /\ Within92(result.text, result.font_size, args.max_width)
    /\ ~Within92(args.name, args.min_size, args.max_width)

Waterfall ==
    LET fitsDefault == Within92(args.name, args.default_size, args.max_width)
        steps == { s \in StepSizes(args.default_size, args.min_size) :
                     Within92(args.name, s, args.max_width) }
    IN  /\ fitsDefault =>
            /\ result.stage = 0
            /\ result.text = args.name
            /\ result.font_size = args.default_size
        /\ (~fitsDefault /\ steps # {}) =>
            /\ result.stage = 1
            /\ result.text = args.name
            /\ result.font_size = Largest(steps)
        /\ (~fitsDefault /\ steps = {}) => result.stage = 2

MiddleIndices(tokens, parsed) ==
    { i \in 2..(Len(tokens) - 1) :
        /\ Lower(tokens[i]) \notin CONNECTORS
        /\ tokens[i] # parsed.patronymic }

\* text is the name with (at least) all middle names removed and the first and
\* last names kept whole
MiddleDropped(text, tokens, parsed) ==
    \E K \in SUBSET ((2..(Len(tokens) - 1)) \ MiddleIndices(tokens, parsed)) :
        text = Join(<<parsed.first_name>> \o InteriorWhere(tokens, 2, K)
                    \o <<parsed.last_name>>)

\* C3: a stage-2 text is the result of the first matching rule: (a) middle names
\* exist -> they are dropped; (b) else a patronymic exists -> "First Last";
\* (c) else a last name exists -> "First L."; (d) else the first name alone.
C3_ReductionPriority ==
    (NameDone /\ result.stage = 2) =>
        LET parsed == parse(args.name)
            tokens == Split(args.name)
        IN  IF parsed.middle_names # <<>>
            THEN MiddleDropped(result.text, tokens, parsed)
            ELSE IF parsed.patronymic # None
            THEN result.text = parsed.first_name \o <<" ">> \o parsed.last_name
            ELSE IF parsed.last_name # <<>>
            THEN result.text = parsed.first_name \o <<" ">>
                                   \o <<parsed.last_name[1]>> \o <<".">>
            ELSE result.text = parsed.first_name

\* rule (c) applied: no middle name, no patronymic, the last name became an initial
C3_Witness ==
    /\ NameDone
    /\ result.stage = 2
    /\ parse(args.name).middle_names = <<>>
    /\ parse(args.name).patronymic = None
    /\ parse(args.name).connectors # <<>>
    /\ result.text = parse(args.name).first_name \o <<" ">>
                         \o <<parse(args.name).last_name[1]>> \o <<".">>

\* C4 (as claimed): when stage 2 drops middle names, the text is the name without
\* its middle names only: connectors and patronymic stay, in the parsed order.
C4_OnlyMiddleNamesRemoved ==
    (NameDone /\ result.stage = 2 /\ parse(args.name).middle_names # <<>>) =>
        LET parsed == parse(args.name)
            tokens == Split(args.name)
            kept == (2..(Len(tokens) - 1)) \ MiddleIndices(tokens, parsed)
        IN  result.text = Join(<<parsed.first_name>> \o InteriorWhere(tokens, 2, kept)
                               \o <<parsed.last_name>>)

\* the largest of default_size, default_size - 1pt, ..., min_size at which text
\* fits, and min_size when it fits at none
WaterfallSize(text, default_size, min_size, max_width) ==
    LET fitting == { s \in StepSizes(default_size, min_size) \cup {default_size} :
                       Within92(text, s, max_width) }
    IN  IF fitting = {} THEN min_size ELSE Largest(fitting)

\* C5 (as claimed): the stage-2 font size is the one the font-size waterfall, begun
\* at default_size, gives for the reduced text.
C5_ReducedWaterfall ==
    (NameDone /\ result.stage = 2) =>
        result.font_size = WaterfallSize(result.text, args.default_size,
                                         args.min_size, args.max_width)

\* C6: truncation is total: every name gets a result, nothing is raised, and a
\* name with a non-whitespace character gets a non-empty text.
C6_TotalBestEffort ==
    NameDone =>
        /\ ~result.raised
        /\ result.text \in Seq(STRING)
        /\ HasNonSpace(args.name) => result.text # <<>>

\* a single-token name too wide even at min_size is still returned
C6_Witness ==
    /\ NameDone
    /\ Len(Split(args.name)) = 1
    /\ result.stage = 2
    /\ ~Within92(result.text, args.min_size, args.max_width)
    /\ result.text # <<>>

-----------------------------------------------------------------------------
(* Properties of the tag-row styling *)

TagDone == op = "_calculate_tag_row_styling" /\ result # Pending

\* the 27 combinations of font size (8, 7.5, 7pt), padding and gap
Combinations ==
    { TagStyling(f, p, g) : f \in {16, 15, 14}, p \in {12, 10, 8}, g \in {8, 6, 4} }

RECURSIVE TagWidthSum(_, _, _)
\* sum over the tags of (text width + 2 x padding_h)
TagWidthSum(tag_values, font_size, padding_h) ==
    IF tag_values = <<>> THEN 0
    ELSE WidthUnits(Head(tag_values), font_size) + 2 * Inches100(padding_h)
         + TagWidthSum(Tail(tag_values), font_size, padding_h)

\* sum of (text width + 2 x padding_h) plus (n-1) x gap is at most 0.93 x max_width
RowWithin93(tag_values, c, max_width) ==
    ( TagWidthSum(tag_values, c.font_size, c.padding_h)
      + (Len(tag_values) - 1) * Inches100(c.gap) ) * 100
        <= 93 * Inches100(max_width)

\* c comes before d in the iteration: font size first, then padding, then gap,
\* each from its largest value down
Before(c, d) ==
    \/ c.font_size > d.font_size
    \/ c.font_size = d.font_size /\ c.padding_h > d.padding_h
    \/ c.font_size = d.font_size /\ c.padding_h = d.padding_h /\ c.gap > d.gap

\* C7: the styling is the first combination, in the order font size / padding /
\* gap, whose row width is within 0.93 x max_width; (7, 0.08, 0.04) when none is;
\* the baseline (8, 0.12, 0.08) for no tags; always one of the 27 combinations.
C7_FirstFittingCombination ==
    TagDone =>
        LET fitting == { c \in Combinations :
                           RowWithin93(args.tag_values, c, args.max_width) }
        IN  /\ result \in Combinations
            /\ IF args.tag_values = <<>> THEN result = TagStyling(16, 12, 8)
               ELSE IF fitting = {} THEN result = TagStyling(14, 8, 4)
               ELSE /\ result \in fitting
                    /\ \A c \in fitting : c = result \/ Before(result, c)

\* the search passed all of 8pt and stopped inside 7.5pt at a reduced padding or gap
C7_Witness ==
    /\ TagDone
    /\ args.tag_values # <<>>
    /\ result.font_size = 15
    /\ result.gap < 8
    /\ RowWithin93(args.tag_values, result, args.max_width)
    /\ ~RowWithin93(args.tag_values, TagStyling(16, 8, 4), args.max_width)

\* C8 (as claimed): the returned styling always keeps the row within 0.93 x max_width.
C8_RowFits ==
    TagDone => RowWithin93(args.tag_values, result, args.max_width)

\* C8 (amended): the returned styling keeps the row within 0.93 x max_width
\* whenever at least one of the 27 combinations does; when none does, the most
\* aggressive combination (7, 0.08, 0.04) is returned and the row overflows.
C8_RowFitsWhenPossible ==
    TagDone =>
        IF \E c \in Combinations : RowWithin93(args.tag_values, c, args.max_width)
        THEN RowWithin93(args.tag_values, result, args.max_width)
        ELSE result = TagStyling(14, 8, 4)

\* a row that does not fit at the baseline was shrunk until it fits
C8_Witness ==
    /\ TagDone
    /\ Len(args.tag_values) >= 2
    /\ ~RowWithin93(args.tag_values, TagStyling(16, 12, 8), args.max_width)
    /\ RowWithin93(args.tag_values, result, args.max_width)

-----------------------------------------------------------------------------
(* Properties of the vertical flow *)

LayoutDone == op = "_prepare_badge_html" /\ result # Pending

\* pt x 1.2 / 72 inches, in 1/7200 in
LineInches(pt) == pt * 120

\* C9: for 0, 1 and 2 title lines the interests band ends at or above 3.52in
\* (bottom_tags_top - min_gap_to_tags), its height is positive and at most 1.35in,
\* its width is twice its height, and it is centred in 2.7in when scaled down
\* and has no offset at nominal size.
C9_InterestsBandFits ==
    LayoutDone =>
        /\ result.title_lines \in {0, 1, 2}
        /\ result.interests_top + result.interests_height
               <= Flow100(362) - Flow100(10)
        /\ Flow100(400) - result.interests_bottom
               = result.interests_top + result.interests_height
        /\ result.interests_height > 0
        /\ result.interests_height <= Flow100(135)
        /\ result.interests_width = 2 * result.interests_height
        /\ result.interests_left_offset * 2
               = IF result.interests_height < Flow100(135)
                 THEN Flow100(270) - result.interests_width
                 ELSE 0

\* a two-line title left less than 1.35in and the band was scaled down
C9_Witness ==
    /\ LayoutDone
    /\ result.title_lines = 2
    /\ result.interests_height < Flow100(135)
    /\ result.interests_left_offset > 0

\* interests_top for a title of n lines, as the claim gives it
ClaimedInterestsTop(n) ==
    Flow100(183) + n * LineInches(10) + Flow100(4) + LineInches(9) + Flow100(10)

-----------------------------------------------------------------------------
(* Properties of name parsing *)

ParseDone == op = "parse" /\ result # Pending

WesternParsed ==
    /\ ParseDone
    /\ Len(Split(args.name)) >= 2
    /\ ~result.is_eastern_order

\* C17: a two-token name whose first token is an East-Asian family name is
\* parsed family name first, and rebuilt without middle names it is "Family
\* Given" again (the original, when that is how it was spelled); no other name
\* is parsed as Eastern order.
C17_EasternOrder ==
    ParseDone =>
        LET tokens == Split(args.name)
        IN  IF Len(tokens) = 2 /\ tokens[1] \in EASTERN_SURNAMES
            THEN /\ result.last_name = tokens[1]
                 /\ result.first_name = tokens[2]
                 /\ result.is_eastern_order
                 /\ _reconstruct_name(result, FALSE)
                        = tokens[1] \o <<" ">> \o tokens[2]
                 /\ (args.name = tokens[1] \o <<" ">> \o tokens[2])
                        => (_reconstruct_name(result, FALSE) = args.name)
            ELSE ~result.is_eastern_order

\* "Li Wei" was parsed as family name Li, given name Wei
C17_Witness ==
    /\ ParseDone
    /\ args.name = <<"L","i"," ","W","e","i">>
    /\ result.is_eastern_order
    /\ result.last_name = <<"L","i">>
    /\ result.first_name = <<"W","e","i">>

\* C18 (as claimed): in a Western-order name of two or more tokens the first and
\* last tokens are the first and last name, and the interior tokens are split
\* among connectors, patronymic and middle_names, none lost or counted twice,
\* each list in the original order.
C18_InteriorPartition ==
    WesternParsed =>
        LET tokens == Split(args.name)
            interior == 2..(Len(tokens) - 1)
        IN  /\ result.first_name = tokens[1]
            /\ result.last_name = tokens[Len(tokens)]
            /\ Len(result.connectors) + Len(result.middle_names)
                   + (IF result.patronymic # None THEN 1 ELSE 0)
                 = Len(tokens) - 2
            /\ \E C \in SUBSET interior :
               \E P \in SUBSET (interior \ C) :
                   /\ Cardinality(P) <= 1
                   /\ result.connectors = InteriorWhere(tokens, 2, C)
                   /\ result.middle_names
                          = InteriorWhere(tokens, 2, interior \ (C \cup P))
                   /\ IF P = {} THEN result.patronymic = None
                      ELSE \E i \in P : result.patronymic = tokens[i]

\* the position parse looks at for a patronymic: the second token of three, the
\* token after the first half otherwise
MiddlePosition(tokens) ==
    IF Len(tokens) = 3 THEN 2 ELSE (Len(tokens) \div 2) + 1

HasPatronymicEnding(token) ==
    \E ending \in PATRONYMIC_ENDINGS : EndsWith(Lower(token), ending)

\* C19 (as claimed): whenever an interior token of a Western-order name ends with
\* a patronymic ending, the patronymic is such an interior token; it is the
\* middle token of a 3-token name.
C19_PatronymicAmongInterior ==
    WesternParsed =>
        LET tokens == Split(args.name)
            interior == 2..(Len(tokens) - 1)
        IN  /\ (\E i \in interior : HasPatronymicEnding(tokens[i]))
                 => \E i \in interior : /\ HasPatronymicEnding(tokens[i])
                                        /\ result.patronymic = tokens[i]
            /\ (Len(tokens) = 3 /\ result.patronymic # None)
                 => result.patronymic = tokens[2]

\* C19 (amended): a patronymic is set exactly when the token at the middle
\* position of a Western-order name of three or more tokens ends with a
\* patronymic ending, and it is that token; it is the middle token of a
\* 3-token name.
C19_PatronymicAtMiddle ==
    WesternParsed =>
        LET tokens == Split(args.name)
        IN  IF Len(tokens) >= 3 /\ HasPatronymicEnding(tokens[MiddlePosition(tokens)])
            THEN result.patronymic = tokens[MiddlePosition(tokens)]
            ELSE result.patronymic = None

\* the third of four tokens was taken as the patronymic
C19_Witness ==
    /\ WesternParsed
    /\ Len(Split(args.name)) = 4
    /\ result.patronymic = Split(args.name)[3]
    /\ result.patronymic # None
    /\ ~HasPatronymicEnding(Split(args.name)[2])

-----------------------------------------------------------------------------
(* Properties of badge preparation *)

BadgeDone == op = "_prepare_badge_html" /\ result # Pending

\* the positions of the assignment map that hold a micro tag longer than 5
\* characters
LongMicroTags ==
    { k \in 1..Len(args.tags) :
          /\ tag_display_type_map(args.tags[k][1]) = "micro"
          /\ Len(args.tags[k][2]) > 5 }

\* the ValueError names the category, the value, the limit 5 and the character
\* count of an assigned micro tag that is too long
NamesLongMicroTag(exception) ==
    /\ exception.type = "ValueError"
    /\ \E k \in LongMicroTags :
           /\ exception.category = args.tags[k][1]
           /\ exception.value = args.tags[k][2]
           /\ exception.max_chars = 5
           /\ exception.chars = Len(args.tags[k][2])

InterestsImageMissing == args.has_interests /\ ~args.env.interests_image_exists

\* C11 (as claimed): a micro tag longer than 5 characters anywhere in the
\* assignment map makes the preparation raise the ValueError that names it, and
\* no ValueError is raised otherwise.
C11_MicroTagRejected ==
    BadgeDone =>
        IF LongMicroTags # {}
        THEN NamesLongMicroTag(result.exception)
        ELSE result.exception.type # "ValueError"

\* C11 (amended): unless the interests image of an attendee with interests is
\* missing (the preparation then ends before the tags are examined), a micro tag
\* longer than 5 characters anywhere in the assignment map makes the preparation
\* raise the ValueError that names it; no ValueError is raised otherwise.
C11_MicroTagRejectedAfterInterests ==
    BadgeDone =>
        IF LongMicroTags # {} /\ ~InterestsImageMissing
        THEN NamesLongMicroTag(result.exception)
        ELSE result.exception.type # "ValueError"

\* a 6-character micro tag in third position, after a valid micro tag, was
\* rejected
C11_Witness ==
    /\ BadgeDone
    /\ Len(args.tags) >= 3
    /\ LongMicroTags = {3}
    /\ tag_display_type_map(args.tags[1][1]) = "micro"
    /\ result.exception.type = "ValueError"
    /\ result.exception.category = args.tags[3][1]
    /\ result.exception.chars = 6

\* C12 (as claimed): the only exception of a badge preparation is the ValueError
\* of a micro tag that is too long.
C12_OnlyMicroTagSurfaces ==
    BadgeDone =>
        (result.exception # NoException => NamesLongMicroTag(result.exception))

\* C12 (amended): a badge preparation raises exactly when the interests image of
\* an attendee with interests is missing (FileNotFoundError) or, failing that, a
\* micro tag is too long (ValueError); a missing title, missing interests, a
\* location that cannot be resolved and a tag row that overflows raise nothing.
C12_SurfacedExceptions ==
    BadgeDone =>
        IF InterestsImageMissing THEN result.exception = FileNotFoundError
        ELSE IF LongMicroTags # {} THEN NamesLongMicroTag(result.exception)
        ELSE result.exception = NoException

\* a badge without title and interests, whose location lookup raised, was
\* completed
C12_Witness ==
    /\ BadgeDone
    /\ ~HasNonSpace(args.title)
    /\ ~args.has_interests
    /\ args.location = Dayton
    /\ args.env.cache = EmptyCache
    /\ args.env.response = RequestException
    /\ result.exception = NoException
    /\ result.location_graphic_path = None

\* C13: no failure of the location code ends the preparation; the graphic is
\* omitted when the location is not normalized or a stage of the pipeline
\* fails, and a path is returned only for a file that was already in the
\* graphics cache or has just been written.
C13_LocationNeverFatal ==
    BadgeDone =>
        /\ result.exception # LocationError
        /\ result.location_normalized = None => result.location_graphic_path = None
        /\ (~args.env.graphic_cached /\ args.env.pipeline # AllStagesOk)
               => (result.location_graphic_path = None /\ ~result.location_written)
        /\ result.location_graphic_path # None
               => /\ args.env.graphic_cached \/ result.location_written
                  /\ result.location_graphic_path
                         = CacheFilename(result.location_normalized)

\* the place was normalized, the SVG writer raised, and the badge was completed
\* without a graphic
C13_Witness ==
    /\ BadgeDone
    /\ result.location_normalized # None
    /\ ~args.env.graphic_cached
    /\ args.env.pipeline.render = "raises"
    /\ result.location_graphic_path = None
    /\ result.exception = NoException

\* the first micro tag of the assignment map, if any
FirstMicro ==
    LET micro == { k \in 1..Len(args.tags) :
                       tag_display_type_map(args.tags[k][1]) = "micro" }
    IN  IF micro = {} THEN 0 ELSE CHOOSE k \in micro : \A j \in micro : k <= j

\* the assignment map without its first micro tag
RemainingTags ==
    IF FirstMicro = 0 THEN args.tags
    ELSE SubSeq(args.tags, 1, FirstMicro - 1)
             \o SubSeq(args.tags, FirstMicro + 1, Len(args.tags))

SameTags(row, items) ==
    /\ Len(row) = Len(items)
    /\ \A k \in 1..Len(row) :
           row[k].category = items[k][1] /\ row[k].value = items[k][2]

\* C20: of a prepared badge, the micro badge is the first micro tag; the top row
\* is the first two of the other tags and the bottom row the rest, in
\* assignment order; the top row is styled for 2.7in and the bottom row for
\* 2.25in beside a micro badge, 2.7in otherwise.
C20_TagRows ==
    (BadgeDone /\ result.exception = NoException) =>
        LET rest == RemainingTags
            cut == IF Len(rest) < 2 THEN Len(rest) ELSE 2
        IN  /\ IF FirstMicro = 0 THEN result.micro_badge = None
               ELSE /\ result.micro_badge # None
                    /\ result.micro_badge.category = args.tags[FirstMicro][1]
                    /\ result.micro_badge.value = args.tags[FirstMicro][2]
            /\ SameTags(result.top_tags, SubSeq(rest, 1, cut))
            /\ SameTags(result.bottom_tags, SubSeq(rest, cut + 1, Len(rest)))
            /\ (IF FirstMicro = 0 THEN 0 ELSE 1)
                   + Len(result.top_tags) + Len(result.bottom_tags)
                 = Len(args.tags)
            /\ result.top_max_width = 270
            /\ result.bottom_max_width = IF FirstMicro = 0 THEN 270 ELSE 225
            /\ result.top_tag_styling
                   = _calculate_tag_row_styling(TagValuesOf(result.top_tags), 270)
            /\ result.bottom_tag_styling
                   = _calculate_tag_row_styling(TagValuesOf(result.bottom_tags),
                                                result.bottom_max_width)

\* four tags with a micro tag in second place: one micro badge, two tags in
\* the top row, one in the bottom row beside the micro badge
C20_Witness ==
    /\ BadgeDone
    /\ result.exception = NoException
    /\ Len(args.tags) = 4
    /\ FirstMicro = 2
    /\ result.micro_badge # None
    /\ Len(result.top_tags) = 2
    /\ Len(result.bottom_tags) = 1
    /\ result.bottom_max_width = 225

-----------------------------------------------------------------------------
(* Properties of the Geocoder *)

\* C14: each request of a Geocoder is sent at least min_request_interval (one
\* second) after the previous request of that instance, and the time of the
\* latest request is the recorded last_request_time.
C14_RequestsSpaced ==
    op = "geocode" =>
        /\ \A i \in 1..(Len(sent) - 1) : sent[i + 1] - sent[i] >= 4
        /\ sent # <<>> => last_request_time = sent[Len(sent)]

\* a call made right after the previous answer waited, and the two requests are
\* exactly one second apart
C14_Witness ==
    /\ op = "geocode"
    /\ Len(sent) >= 2
    /\ sent[2] - sent[1] = 4
    /\ clock = sent[2]

-----------------------------------------------------------------------------
(* Properties of the normalization cache *)

Normalizing == op = "normalize"

\* an undisturbed dump leaves the instance's dict, with the entry of the call,
\* in the file
DumpPersists(n) ==
    (normalizers[n].pc = "dump" /\ normalizers'[n].pc = "idle"
         /\ ~normalizers[n].disturbed)
        => /\ cache_file' = JsonFile(normalizers[n].cache)
           /\ normalizers[n].location_str \in DOMAIN cache_file'.dict

\* C15 (as claimed): once an instance has performed the lookup of a string,
\* with or without success, the string is in its cache, the instance sends no
\* second request for it, and the entry is written to the file.
C15_LookupRecorded ==
    /\ [](Normalizing =>
            \A n \in Instances :
                /\ \A location_str \in history.of[n].responded \cup history.of[n].raised :
                       normalizers[n].pc = "idle"
                           => location_str \in DOMAIN normalizers[n].cache
                /\ history.of[n].again_answered = {}
                /\ history.of[n].again_raised = {})
    /\ [][Normalizing => \A n \in Instances : DumpPersists(n)]_vars

\* C15 (amended): once the request of an instance for a string has been
\* answered (with a result, with none, or with an error status), the string is
\* in its cache - the normalized string, or the empty string - and the instance
\* sends no second request for it: later calls are answered from the cache;
\* the entry is written to the file when the file can be opened.  A request
\* that raised records nothing.
C15_AnsweredLookupRecorded ==
    /\ [](Normalizing =>
            \A n \in Instances :
                /\ history.of[n].responded \subseteq DOMAIN normalizers[n].cache
                /\ history.of[n].again_answered = {}
                /\ \A location_str \in history.of[n].raised
                                         \ history.of[n].responded :
                       location_str \notin DOMAIN normalizers[n].cache
                /\ history.of[n].hits \subseteq DOMAIN normalizers[n].cache)
    /\ [][Normalizing => \A n \in Instances : DumpPersists(n)]_vars

\* an instance looked Atlantis up once, recorded the failure marker, wrote it
\* to the file and answered a later call from its cache
C15_Witness ==
    /\ Normalizing
    /\ \E n \in Instances :
           /\ normalizers[n].pc = "idle"
           /\ Atlantis \in history.of[n].responded
           /\ Atlantis \in history.of[n].hits
           /\ history.of[n].requests[Atlantis] = 1
           /\ normalizers[n].cache[Atlantis] = <<>>
           /\ normalizers[n].returned = Returned(Atlantis, None)
           /\ cache_file.state = "json"
           /\ Atlantis \in DOMAIN cache_file.dict

\* what geocoding a string gives: its normalized form, or nothing
DerivedFromGeocoding(location_str) ==
    IF location_str = Dayton THEN <<"D","a","y","t","o","n",","," ","O","H">> ELSE <<>>

\* an entry maps a string to the outcome of geocoding that string: its
\* normalized form or the failure marker
SoundEntries(cache) ==
    \A location_str \in DOMAIN cache :
        cache[location_str] \in { <<>>, DerivedFromGeocoding(location_str) }

\* C16: however the loads, lookups and saves of two instances interleave, every
\* value returned by normalize(s) is the one derived from geocoding s (or
\* None), and every entry of every dict and of the file maps a string to the
\* outcome of geocoding that string; an unreadable or overwritten file is
\* loaded as an empty cache.
C16_LastWriterWins ==
    Normalizing =>
        /\ \A n \in Instances :
               /\ SoundEntries(normalizers[n].cache)
               /\ normalizers[n].returned # NoCall
                      => normalizers[n].returned.value
                             \in { None,
                                   DerivedFromGeocoding(normalizers[n].returned.location_str) }
        /\ SoundEntries(_load_cache(cache_file))
        /\ cache_file.state # "json" => _load_cache(cache_file) = EmptyCache

\* the second writer dropped the first writer's entry from the file, and a
\* later instance sent a second request for it
C16_Witness ==
    /\ Normalizing
    /\ cache_file.state = "json"
    /\ Dayton \notin DOMAIN cache_file.dict
    /\ \E n, m \in Instances :
           /\ n # m
           /\ Dayton \in DOMAIN normalizers[n].cache
           /\ normalizers[n].pc = "idle"
           /\ normalizers[n].returned = Returned(Dayton, DerivedFromGeocoding(Dayton))
           /\ normalizers[m].pc = "save"
           /\ normalizers[m].location_str = Dayton
           /\ history.renders >= 1

-----------------------------------------------------------------------------
(* Properties of the location parser and of render_location_graphic *)

LocationParsed == op = "LocationParser.parse" /\ result # Pending

GraphicRendered == op = "render_location_graphic" /\ result # Pending

\* C26: render_location_graphic returns a path only for a location whose
\* parse has a region or a country; for a location string of a single part it
\* returns None, writes no SVG file and raises nothing.
C26_CityOnlyHasNoGraphic ==
    GraphicRendered =>
        /\ ~result.raised
        /\ result.path # None =>
               /\ result.written
               /\ \/ Truthy(LocationParser_parse(args.location_str).region)
                  \/ Truthy(LocationParser_parse(args.location_str).country)
        /\ Len(args.parts) = 1 => result.path = None /\ ~result.written

\* a state-only string was rendered with every stage of the pipeline working
C26_Witness ==
    /\ GraphicRendered
    /\ args.location_str = <<"O","h","i","o">>
    /\ args.pipeline = AllStagesOk
    /\ result.path = None

Transformed == op = "geo_to_pixel" /\ result # Pending

\* the share of the canvas dimension between the padding on both sides
Padded(pixel, size) ==
    /\ FLe(FMul(padding_ratio, Whole(size)), pixel)
    /\ FLe(pixel, FMul(FSub(Whole(1), padding_ratio), Whole(size)))

-----------------------------------------------------------------------------
(* Order of the auto-shrink of a tag row *)

\* C23: the gap is reduced first, then the padding, then the font size.  The
\* returned font size is below 8pt only if no padding and gap fit the row at
\* 8pt; the returned padding is below 0.12in only if no gap fits at the
\* returned font size with 0.12in; the returned gap is below 0.08in only if
\* the row does not fit at the returned font size and padding with 0.08in.
\* A row fits when its width is within 0.93 x max_width.
C23_GapPaddingFontOrder ==
    TagDone =>
        /\ result.font_size < 16 =>
               \A c \in Combinations :
                   c.font_size = 16 =>
                       ~RowWithin93(args.tag_values, c, args.max_width)
        /\ result.padding_h < 12 =>
               \A g \in {8, 6, 4} :
                   ~RowWithin93(args.tag_values,
                                TagStyling(result.font_size, 12, g), args.max_width)
        /\ result.gap < 8 =>
               ~RowWithin93(args.tag_values,
                            TagStyling(result.font_size, result.padding_h, 8),
                            args.max_width)

\* a row was shrunk to 7pt with a reduced padding and fits
C23_Witness ==
    /\ TagDone
    /\ result.font_size = 14
    /\ result.padding_h < 12
    /\ RowWithin93(args.tag_values, result, args.max_width)

-----------------------------------------------------------------------------
(* Properties of the render path of one badge *)

\* C24: on a render path that misses both location caches, any two requests
\* sent to the geocoding service are at least one second apart.
C24_PathRequestsSpaced ==
    op \in { "_get_location_graphic", "render_location_graphic", "returned" } =>
        \A i \in 1..(Len(sent) - 1) : sent[i + 1] - sent[i] >= min_request_interval

-----------------------------------------------------------------------------
(* The failure marker of the normalization cache *)

\* C25: the failure marker (the empty string) is recorded for a location
\* string only when the service answered with an empty result set; a non-200
\* answer and a request that raises leave the cache unchanged.  The service
\* has a result for Dayton, so no cache and no cache file holds the marker
\* for it.
C25_MarkerOnlyForEmptyResult ==
    Normalizing =>
        /\ \A n \in Instances :
               Dayton \in DOMAIN normalizers[n].cache =>
                   normalizers[n].cache[Dayton] # <<>>
        /\ Dayton \in DOMAIN cache_file.dict => cache_file.dict[Dayton] # <<>>

-----------------------------------------------------------------------------
(* Truncation of Eastern-order names *)

\* C27: for an Eastern-order name the stage-2 text keeps the family name
\* first: the family name, or its initial, precedes the given name, as in the
\* original.
C27_EasternFamilyFirst ==
    NameDone /\ result.stage = 2 /\ ~result.raised
             /\ parse(args.name).is_eastern_order =>
        LET parsed == parse(args.name)
            words == Split(result.text)
        IN  /\ Len(words) = 2
            /\ words[1] \in { parsed.last_name,
                              FirstChar(parsed.last_name) \o <<".">> }
            /\ words[2] = parsed.first_name

-----------------------------------------------------------------------------
(* Range of the returned font size *)

\* C28: for min_size <= default_size the returned font size lies between
\* min_size and default_size.
C28_FontSizeInRange ==
    NameDone /\ args.min_size <= args.default_size =>
        /\ args.min_size <= result.font_size
        /\ result.font_size <= args.default_size

-----------------------------------------------------------------------------
(* Micro tags and the standard tag rows *)

IsMicroItem(item) == tag_display_type_map(item[1]) = "micro"

IsMicroEntry(entry) == entry.display_type = "micro"

-----------------------------------------------------------------------------
(* Position of the graphic beside the professional block *)

\* height of the text block for a title of n lines: title_height +
\* company_margin_top + company_height
TextBlockHeight(n) == n * LineInches(10) + Flow100(4) + LineInches(9)

\* C30 (as claimed): for 0, 1 and 2 title lines graphic_offset centers the
\* 0.4in graphic on the text block and is never negative.
C30_GraphicOffsetNonNegative ==
    LayoutDone =>
        /\ 2 * result.graphic_offset + Flow100(40) = TextBlockHeight(result.title_lines)
        /\ result.graphic_offset >= 0

\* C30 (amended): graphic_offset centers the 0.4in graphic on the text block.
\* It is negative when the text block is lower than the graphic: -0.105in for
\* no title, where the graphic starts above the separator at 1.75in, and
\* about -0.0217in for a one-line title, where it starts between the
\* separator and professional_top; it is non-negative (about 0.0617in) only
\* for a two-line title.
C30_GraphicCentered ==
    LayoutDone =>
        /\ result.title_lines \in {0, 1, 2}
        /\ 2 * result.graphic_offset + Flow100(40) = TextBlockHeight(result.title_lines)
        /\ result.graphic_offset >= 0 <=> result.title_lines = 2
        /\ result.title_lines = 0 =>
               /\ result.graphic_offset * 1000 = -105 * FlowPerInch
               /\ result.professional_top + result.graphic_offset < Flow100(175)
        /\ result.title_lines = 1 =>
               /\ result.graphic_offset = -156
               /\ result.professional_top + result.graphic_offset > Flow100(175)
        /\ result.title_lines = 2 => result.graphic_offset = 444

\* a badge with a one-line title: the graphic starts above professional_top
C30_Witness ==
    /\ LayoutDone
    /\ result.title_lines = 1
    /\ result.graphic_offset < 0
    /\ result.professional_top = Flow100(183)

====
